---- MODULE Spec2Model ----
(***************************************************************************)
(* Model of pexcz's interpreter identification script                      *)
(* (src/src/lib/interpreter.py): the platform tag enumerators, the ABI tag *)
(* builder, the tag triple assembler and the document builder driven by    *)
(* main().                                                                 *)
(*                                                                         *)
(* Python strings are TLA+ strings, Python lists and tuples are sequences, *)
(* an Optional value is the empty sequence (None) or a one-element         *)
(* sequence.  A generator is modelled by the sequence of what it yields.   *)
(***************************************************************************)
EXTENDS Integers, Sequences, FiniteSets, TLC

VARIABLES
    pc,                 \* position of main(): "start", "platforms", "tags", "done", "failed"
    sys,                \* facts of the sys module: implementation name, version_info, ...
    config_vars,        \* sysconfig.get_config_vars()
    host,               \* facts of the platform / sysconfig modules and of the host libc
    linux_info,         \* the --linux-info JSON document
    LAST_GLIBC_MINOR,   \* the module-level defaultdict _LAST_GLIBC_MINOR
    platforms,          \* tuple(iter_supported_platform_tags())
    abis,               \* the ABI list cpython_tags / generic_tags iterate over
    tags,               \* list(iter_supported_tags(platforms))
    supported_tags,     \* identify(...)["supported_tags"]
    previous,           \* Optional: the supported_tags of the resolution before this one
    output_path,        \* Optional: the output_path argument of main()
    file,               \* Optional: the content of the file at output_path, None: no file
    stdout,             \* Optional: the document written to sys.stdout
    subprocesses,       \* the subprocesses this resolution started
    boot_request,       \* the launcher (pexcz/__init__.py): platform.machine(), the
                        \*   arguments of boot(), sys.argv, sys.executable, os.environ,
                        \*   what the native library is and returns
    boot_pc,            \* "import", "loaded", "failed", "exited"; "none": no launcher
    CURRENT_OS,         \* Optional: the name of the OperatingSystem of the launcher
    CURRENT_ARCH,       \* Optional: the name of the Arch of the launcher
    raised,             \* Optional: the message of the error the launcher raised
    native_call,        \* Optional: the arguments _pexcz.boot was called with
    exit_code,          \* Optional: the code the launcher handed to sys.exit
    cleanup             \* what _load_pexcz did about its temporary directory: the
                        \*   shutil.rmtree calls, the atexit registrations, the warnings

\* the state of the launcher
launcher == <<boot_request, boot_pc, CURRENT_OS, CURRENT_ARCH, raised, native_call,
              exit_code, cleanup>>

vars == <<pc, sys, config_vars, host, linux_info, LAST_GLIBC_MINOR,
          platforms, abis, tags, supported_tags, previous,
          output_path, file, stdout, subprocesses, launcher>>

(***************************************************************************)
(* Bounds of the checked input space.                                      *)
(***************************************************************************)
MaxPyMinor == 14
MaxGlibcMinor == 30
MaxGlibcMajor == 3
MaxMuslMinor == 2
MaxIosMajor == 15
MaxIosMinor == 10
MaxApiLevel == 24
MaxMacMinor == 14

(***************************************************************************)
(* Python built-ins.                                                       *)
(***************************************************************************)
None == <<>>

Some(v) == <<v>>

\* range(start, stop, -1) as a list
RangeDown(start, stop) ==
    [i \in 1..(IF start > stop THEN start - stop ELSE 0) |-> start - i + 1]

\* tuple comparison a < b on pairs
TupleLt(a, b) == a[1] < b[1] \/ (a[1] = b[1] /\ a[2] < b[2])

\* tuple comparison a < b on tuples of any lengths (a proper prefix is less)
RECURSIVE SeqLt(_, _)
SeqLt(a, b) ==
    IF b = <<>> THEN FALSE
    ELSE IF a = <<>> THEN TRUE
    ELSE IF Head(a) # Head(b) THEN Head(a) < Head(b)
    ELSE SeqLt(Tail(a), Tail(b))

SeqLe(a, b) == ~SeqLt(b, a)

RECURSIVE Flatten(_)
Flatten(ss) == IF ss = <<>> THEN <<>> ELSE Head(ss) \o Flatten(Tail(ss))

Contains(seq, x) == \E i \in 1..Len(seq) : seq[i] = x

\* str.startswith
StartsWith(s, prefix) ==
    Len(s) >= Len(prefix) /\ SubSeq(s, 1, Len(prefix)) = prefix

\* str.replace(old, new) for a one-character old
RECURSIVE Replace(_, _, _)
Replace(s, old, new) ==
    IF s = "" THEN ""
    ELSE (IF Head(s) = old THEN new ELSE Head(s)) \o Replace(Tail(s), old, new)

\* position of the first occurrence of the one-character sep in s, 0 if none
RECURSIVE Find(_, _, _)
Find(s, sep, i) ==
    IF i > Len(s) THEN 0
    ELSE IF SubSeq(s, i, i) = sep THEN i ELSE Find(s, sep, i + 1)

\* str.split(sep, maxsplit); maxsplit = -1 splits everywhere
RECURSIVE Split(_, _, _)
Split(s, sep, maxsplit) ==
    LET at == Find(s, sep, 1) IN
    IF maxsplit = 0 \/ at = 0 THEN <<s>>
    ELSE <<SubSeq(s, 1, at - 1)>>
         \o Split(SubSeq(s, at + 1, Len(s)), sep,
                  IF maxsplit < 0 THEN maxsplit ELSE maxsplit - 1)

\* sep.join(parts)
RECURSIVE Join(_, _)
Join(sep, parts) ==
    IF parts = <<>> THEN ""
    ELSE IF Len(parts) = 1 THEN parts[1]
    ELSE parts[1] \o sep \o Join(sep, Tail(parts))

\* "in" on a string for a one-character needle
InStr(c, s) == Find(s, c, 1) # 0

Digits == <<"0", "1", "2", "3", "4", "5", "6", "7", "8", "9">>

DigitValue(c) == (CHOOSE i \in 1..10 : Digits[i] = c) - 1

IsDigit(c) == \E i \in 1..10 : Digits[i] = c

\* whether int(s) succeeds on s (no sign, surrounding whitespace stripped elsewhere)
IsNumeric(s) == s # "" /\ \A i \in 1..Len(s) : IsDigit(SubSeq(s, i, i))

\* int(s) for a numeric s
RECURSIVE StrToInt(_)
StrToInt(s) ==
    IF Len(s) = 1 THEN DigitValue(s)
    ELSE 10 * StrToInt(SubSeq(s, 1, Len(s) - 1)) + DigitValue(SubSeq(s, Len(s), Len(s)))

\* str.strip() of the trailing white space int() ignores
RECURSIVE RStrip(_)
RStrip(s) ==
    IF s # "" /\ SubSeq(s, Len(s), Len(s)) \in {" ", "\n"}
    THEN RStrip(SubSeq(s, 1, Len(s) - 1)) ELSE s

\* whether int(s) raises no ValueError
IntOk(s) == IsNumeric(RStrip(s))

\* int(s)
Int_(s) == StrToInt(RStrip(s))

\* str(n)
Str(n) == ToString(n)

\* seq[:n]
Take(seq, n) == SubSeq(seq, 1, IF Len(seq) < n THEN Len(seq) ELSE n)

\* what a generator run to its end leaves: the values it yielded, or the exception
Yield(seq) == [ok |-> TRUE, tags |-> seq]

Raise == [ok |-> FALSE, tags |-> <<>>]

\* normalize_string leaving the dashes in place
normalize_string_keep_dashes(string) ==
    Replace(Replace(string, ".", "_"), " ", "_")

normalize_string(string) ==
    Replace(Replace(Replace(string, ".", "_"), "-", "_"), " ", "_")

version_nodot(version) == Join("", [i \in 1..Len(version) |-> Str(version[i])])

get_config_var(name) == config_vars[name]

\* Python truthiness of an Optional[int]
TruthyInt(opt) == opt # None /\ opt[1] # 0

(***************************************************************************)
(* Linux: manylinux, musllinux and the bare linux tags.                    *)
(***************************************************************************)
LEGACY_MANYLINUX_MAP ==
    [v \in {<<2, 17>>, <<2, 12>>, <<2, 5>>} |->
        CASE v = <<2, 17>> -> "manylinux2014"
          [] v = <<2, 12>> -> "manylinux2010"
          [] v = <<2, 5>> -> "manylinux1"]

\* the value _LAST_GLIBC_MINOR[glibc_major] of the defaultdict(lambda: 50)
DefaultLastGlibcMinor == 50

LastGlibcMinorLookup(table, glibc_major) ==
    IF glibc_major \in DOMAIN table THEN table[glibc_major] ELSE DefaultLastGlibcMinor

\* LastGlibcMinorAfter inserting one less than the value the lookup returned
LastGlibcMinorAfter_one_less(table, majors) ==
    [m \in DOMAIN table \cup {majors[i] : i \in 1..Len(majors)} |->
        IF m \in DOMAIN table THEN table[m] ELSE DefaultLastGlibcMinor - 1]

\* the defaultdict after the lookups of the keys in majors: a missing key is inserted
LastGlibcMinorAfter(table, majors) ==
    [m \in DOMAIN table \cup {majors[i] : i \in 1..Len(majors)} |->
        LastGlibcMinorLookup(table, m)]

\* the optional _manylinux module: host.manylinux_module is a record
\*   present, has_compatible (defines manylinux_compatible), compatible_result
\*   ("None", "True", "False": what manylinux_compatible returns),
\*   legacy (Optional[bool]: manylinux1/2010/2014_compatible attributes)
is_glibc_version_compatible(arch, sys_glibc, version) ==
    LET m == host.manylinux_module IN
    IF TupleLt(sys_glibc, version) THEN FALSE
    ELSE IF ~m.present THEN TRUE
    ELSE IF m.has_compatible
         THEN (IF m.compatible_result = "None" THEN TRUE
               ELSE m.compatible_result = "True")
    ELSE IF version \in DOMAIN LEGACY_MANYLINUX_MAP /\ m.legacy # None
         THEN m.legacy[1]
    ELSE TRUE

AllowedArches ==
    {"x86_64", "aarch64", "ppc64", "ppc64le", "s390x", "loongarch64", "riscv64"}

\* have_compatible_abi letting every architecture through
have_compatible_abi_always(arches, armhf, i686) == TRUE

have_compatible_abi(arches, armhf, i686) ==
    IF Contains(arches, "armv7l") THEN armhf
    ELSE IF Contains(arches, "i686") THEN i686
    ELSE \E i \in 1..Len(arches) : arches[i] \in AllowedArches

\* too_old_glibc2 with the x86 baseline on every architecture
too_old_glibc2_x86_everywhere(arches) == <<2, 4>>

too_old_glibc2(arches) ==
    IF Contains(arches, "x86_64") \/ Contains(arches, "i686")
    THEN <<2, 4>> ELSE <<2, 16>>

\* the glibc majors below the current one that the ceiling table is asked for
LowerGlibcMajors(current_glibc) == RangeDown(current_glibc[1] - 1, 1)

\* glibc_max_list with the current version appended after the lower majors
glibc_max_list_current_last(current_glibc, table) ==
    [i \in 1..Len(LowerGlibcMajors(current_glibc)) |->
        <<LowerGlibcMajors(current_glibc)[i],
          LastGlibcMinorLookup(table, LowerGlibcMajors(current_glibc)[i])>>]
    \o <<current_glibc>>

glibc_max_list(current_glibc, table) ==
    <<current_glibc>>
    \o [i \in 1..Len(LowerGlibcMajors(current_glibc)) |->
          <<LowerGlibcMajors(current_glibc)[i],
            LastGlibcMinorLookup(table, LowerGlibcMajors(current_glibc)[i])>>]

\* manylinux_tags_of with the legacy tag yielded before the numeric tag
manylinux_tags_of_legacy_first(arch, current_glibc, glibc_version) ==
    (IF glibc_version \in DOMAIN LEGACY_MANYLINUX_MAP
        /\ is_glibc_version_compatible(arch, current_glibc, glibc_version)
     THEN <<LEGACY_MANYLINUX_MAP[glibc_version] \o "_" \o arch>>
     ELSE <<>>)
    \o (IF is_glibc_version_compatible(arch, current_glibc, glibc_version)
        THEN <<"manylinux_" \o Str(glibc_version[1]) \o "_" \o Str(glibc_version[2])
               \o "_" \o arch>>
        ELSE <<>>)

\* the body of the innermost loop: the numeric tag, then the legacy tag
manylinux_tags_of(arch, current_glibc, glibc_version) ==
    (IF is_glibc_version_compatible(arch, current_glibc, glibc_version)
     THEN <<"manylinux_" \o Str(glibc_version[1]) \o "_" \o Str(glibc_version[2])
            \o "_" \o arch>>
     ELSE <<>>)
    \o (IF glibc_version \in DOMAIN LEGACY_MANYLINUX_MAP
           /\ is_glibc_version_compatible(arch, current_glibc, glibc_version)
        THEN <<LEGACY_MANYLINUX_MAP[glibc_version] \o "_" \o arch>>
        ELSE <<>>)

min_minor(glibc_max, too_old) ==
    IF glibc_max[1] = too_old[1] THEN too_old[2] ELSE -1

iter_manylinux_platform_tags(current_glibc, armhf, i686, arches, table) ==
    IF ~have_compatible_abi(arches, armhf, i686) THEN <<>>
    ELSE
      LET too_old == too_old_glibc2(arches)
          max_list == glibc_max_list(current_glibc, table)
          OfMax(arch, glibc_max) ==
              LET minors == RangeDown(glibc_max[2], min_minor(glibc_max, too_old))
                  OfMinor(glibc_minor) ==
                      manylinux_tags_of(arch, current_glibc, <<glibc_max[1], glibc_minor>>)
              IN Flatten([k_ \in 1..Len(minors) |-> OfMinor(minors[k_])])
          OfArch(arch) ==
              LET F(glibc_max) == OfMax(arch, glibc_max) IN Flatten([k_ \in 1..Len(max_list) |-> F(max_list[k_])])
      IN Flatten([k_ \in 1..Len(arches) |-> OfArch(arches[k_])])

\* "for arch in arches: for minor in range(minor, -1, -1)": the inner loop
\* variable is the variable the range starts from, so each arch starts from
\* the value the previous arch's loop left in minor.
RECURSIVE musllinux_loop(_, _, _)
musllinux_loop(major, minor, arches) ==
    IF arches = <<>> THEN <<>>
    ELSE LET minors == RangeDown(minor, -1)
             left == IF minors = <<>> THEN minor ELSE minors[Len(minors)]
         IN [i \in 1..Len(minors) |->
                "musllinux_" \o Str(major) \o "_" \o Str(minors[i]) \o "_" \o Head(arches)]
            \o musllinux_loop(major, left, Tail(arches))

iter_musllinux_platform_tags(version, arches) ==
    musllinux_loop(version[1], version[2], arches)

\* Python truthiness of an Optional[dict]: None and {} are false
TruthyDict(opt) == opt # None /\ DOMAIN opt[1] # {}

\* the number of leading decimal digits of s
RECURSIVE LeadingDigits(_)
LeadingDigits(s) ==
    IF s # "" /\ IsDigit(Head(s)) THEN 1 + LeadingDigits(Tail(s)) ELSE 0

\* parse_glibc_version answering (0, 0) for a string it cannot parse
parse_glibc_version_zero(version_str) ==
    LET n == LeadingDigits(version_str)
        rest == SubSeq(version_str, n + 2, Len(version_str))
        k == LeadingDigits(rest)
    IN IF n = 0 \/ SubSeq(version_str, n + 1, n + 1) # "." \/ k = 0
       THEN <<0, 0>>
       ELSE <<StrToInt(SubSeq(version_str, 1, n)), StrToInt(SubSeq(rest, 1, k))>>

\* re.match(r"(?P<major>[0-9]+)\.(?P<minor>[0-9]+)", version_str)
parse_glibc_version(version_str) ==
    LET n == LeadingDigits(version_str)
        rest == SubSeq(version_str, n + 2, Len(version_str))
        k == LeadingDigits(rest)
    IN IF n = 0 \/ SubSeq(version_str, n + 1, n + 1) # "." \/ k = 0
       THEN <<-1, -1>>
       ELSE <<StrToInt(SubSeq(version_str, 1, n)), StrToInt(SubSeq(rest, 1, k))>>

\* host.glibc_version_string: what glibc_version_string() returns
get_glibc_version ==
    IF host.glibc_version_string = None THEN <<-1, -1>>
    ELSE parse_glibc_version(host.glibc_version_string[1])

\* the architecture aliases of a normalized linux_<arch> platform
linux_arches(linux) ==
    LET renamed == IF host.is32 /\ linux = "linux_x86_64" THEN "linux_i686"
                   ELSE IF host.is32 /\ linux = "linux_aarch64" THEN "linux_armv8l"
                   ELSE linux
        arch == Split(renamed, "_", 1)[2]
    IN IF arch = "armv8l" THEN <<"armv8l", "armv7l">> ELSE <<arch>>

\* the bare tags with the last alias first
bare_linux_tags_reversed(arches) ==
    [i \in 1..Len(arches) |-> "linux_" \o arches[Len(arches) + 1 - i]]

bare_linux_tags(arches) == [i \in 1..Len(arches) |-> "linux_" \o arches[i]]

\* the glibc version iter_linux_platform_tags hands to the manylinux enumerator
linux_glibc_version(manylinux) ==
    IF manylinux.glibc # None THEN manylinux.glibc[1] ELSE get_glibc_version

\* iter_linux_platform_tags taking the musllinux record first when it is there
iter_linux_platform_tags_musl_first(info, table) ==
    LET linux == normalize_string(host.get_platform)
        arches == linux_arches(linux)
    IN IF ~StartsWith(linux, "linux_") THEN Yield(<<linux>>)
       ELSE IF info.musllinux # None
       THEN Yield(iter_musllinux_platform_tags(info.musllinux[1], arches)
                  \o bare_linux_tags(arches))
       ELSE IF TruthyDict(info.manylinux)
       THEN Yield(iter_manylinux_platform_tags(
                      linux_glibc_version(info.manylinux[1]),
                      info.manylinux[1].armhf, info.manylinux[1].i686, arches, table)
                  \o bare_linux_tags(arches))
       ELSE Raise

iter_linux_platform_tags(info, table) ==
    LET linux == normalize_string(host.get_platform)
        arches == linux_arches(linux)
    IN IF ~StartsWith(linux, "linux_") THEN Yield(<<linux>>)
       ELSE IF TruthyDict(info.manylinux)
       THEN Yield(iter_manylinux_platform_tags(
                      linux_glibc_version(info.manylinux[1]),
                      info.manylinux[1].armhf, info.manylinux[1].i686, arches, table)
                  \o bare_linux_tags(arches))
       ELSE IF info.musllinux = None THEN Raise
       ELSE Yield(iter_musllinux_platform_tags(info.musllinux[1], arches)
                  \o bare_linux_tags(arches))

\* _LAST_GLIBC_MINOR after iter_linux_platform_tags ran
linux_table_after(info, table) ==
    LET linux == normalize_string(host.get_platform)
        arches == linux_arches(linux)
    IN IF StartsWith(linux, "linux_") /\ TruthyDict(info.manylinux)
          /\ have_compatible_abi(arches, info.manylinux[1].armhf, info.manylinux[1].i686)
       THEN LastGlibcMinorAfter(
                table, LowerGlibcMajors(linux_glibc_version(info.manylinux[1])))
       ELSE table

(***************************************************************************)
(* macOS, iOS, Android and the generic platform.                           *)
(***************************************************************************)
mac_arch(arch) ==
    IF ~host.is32 THEN arch
    ELSE IF StartsWith(arch, "ppc") THEN "ppc"
    ELSE "i386"

\* mac_binary_formats without the version ceilings of ppc64 and ppc
mac_binary_formats_no_ceiling(version, cpu_arch) ==
    LET specific ==
            CASE cpu_arch = "x86_64" -> <<"intel", "fat64", "fat32">>
              [] cpu_arch = "i386" -> <<"intel", "fat32", "fat">>
              [] cpu_arch = "ppc64" -> <<"fat64">>
              [] cpu_arch = "ppc" -> <<"fat32", "fat">>
              [] OTHER -> <<>>
        excluded ==
            CASE cpu_arch \in {"x86_64", "i386", "ppc64"} -> SeqLt(version, <<10, 4>>)
              [] OTHER -> FALSE
    IN IF excluded THEN <<>>
       ELSE <<cpu_arch>> \o specific
            \o (IF cpu_arch \in {"arm64", "x86_64"} THEN <<"universal2">> ELSE <<>>)
            \o (IF cpu_arch \in {"x86_64", "i386", "ppc64", "ppc", "intel"}
                THEN <<"universal">> ELSE <<>>)

mac_binary_formats(version, cpu_arch) ==
    LET specific ==
            CASE cpu_arch = "x86_64" -> <<"intel", "fat64", "fat32">>
              [] cpu_arch = "i386" -> <<"intel", "fat32", "fat">>
              [] cpu_arch = "ppc64" -> <<"fat64">>
              [] cpu_arch = "ppc" -> <<"fat32", "fat">>
              [] OTHER -> <<>>
        excluded ==
            CASE cpu_arch \in {"x86_64", "i386"} -> SeqLt(version, <<10, 4>>)
              [] cpu_arch = "ppc64" ->
                    SeqLt(<<10, 5>>, version) \/ SeqLt(version, <<10, 4>>)
              [] cpu_arch = "ppc" -> SeqLt(<<10, 6>>, version)
              [] OTHER -> FALSE
    IN IF excluded THEN <<>>
       ELSE <<cpu_arch>> \o specific
            \o (IF cpu_arch \in {"arm64", "x86_64"} THEN <<"universal2">> ELSE <<>>)
            \o (IF cpu_arch \in {"x86_64", "i386", "ppc64", "ppc", "intel"}
                THEN <<"universal">> ELSE <<>>)

macosx_tag(major_version, minor_version, binary_format) ==
    "macosx_" \o Str(major_version) \o "_" \o Str(minor_version) \o "_" \o binary_format

\* the tags of one (major, minor): one per binary format
macosx_tags_of(major_version, minor_version, arch) ==
    LET formats == mac_binary_formats(<<major_version, minor_version>>, arch)
    IN [i \in 1..Len(formats) |-> macosx_tag(major_version, minor_version, formats[i])]

\* tuple(map(int, version_str.split(".")[:2])): whether it raises, and its value
mac_version_ok(version_str) ==
    LET parts == Take(Split(version_str, ".", -1), 2)
    IN \A i \in 1..Len(parts) : IntOk(parts[i])

mac_version(version_str) ==
    LET parts == Take(Split(version_str, ".", -1), 2)
    IN [i \in 1..Len(parts) |-> Int_(parts[i])]

\* mac_reprobes for every reported 10.x version
mac_reprobes_every_10 ==
    mac_version_ok(host.mac_ver.version_str)
    /\ Len(mac_version(host.mac_ver.version_str)) > 0
    /\ mac_version(host.mac_ver.version_str)[1] = 10

\* whether iter_macos_platform_tags starts the re-probe subprocess
mac_reprobes ==
    mac_version_ok(host.mac_ver.version_str)
    /\ mac_version(host.mac_ver.version_str) = <<10, 16>>

\* the subprocess.check_output call of iter_macos_platform_tags
mac_ver_probe ==
    [args |-> <<"sys.executable", "-sS", "-c",
                "import platform; print(platform.mac_ver()[0])">>,
     env |-> <<"SYSTEM_VERSION_COMPAT=0">>]

\* the subprocesses iter_supported_platform_tags starts
platform_subprocesses ==
    IF host.OS = "darwin" /\ mac_reprobes THEN <<mac_ver_probe>> ELSE <<>>

\* the three blocks of iter_macos_platform_tags for a parsed version
\* macos_tags_for with the per-architecture formats in the legacy 10.x block
\* of every architecture
macos_tags_for_legacy_all(version, arch) ==
    LET OfMinor(minor_version) == macosx_tags_of(10, minor_version, arch)
        OfMajor(major_version) == macosx_tags_of(major_version, 0, arch)
    IN (IF SeqLe(<<10, 0>>, version) /\ SeqLt(version, <<11, 0>>)
        THEN Flatten([k_ \in 1..Len(RangeDown(version[2], -1)) |-> OfMinor(RangeDown(version[2], -1)[k_])]) ELSE <<>>)
       \o (IF SeqLe(<<11, 0>>, version)
           THEN Flatten([k_ \in 1..Len(RangeDown(version[1], 10)) |-> OfMajor(RangeDown(version[1], 10)[k_])]) ELSE <<>>)
       \o (IF SeqLe(<<11, 0>>, version)
           THEN Flatten([k_ \in 1..Len(RangeDown(16, 3)) |-> OfMinor(RangeDown(16, 3)[k_])])
           ELSE <<>>)

macos_tags_for(version, arch) ==
    LET OfMinor(minor_version) == macosx_tags_of(10, minor_version, arch)
        OfMajor(major_version) == macosx_tags_of(major_version, 0, arch)
        Universal2(minor_version) == <<macosx_tag(10, minor_version, "universal2")>>
    IN (IF SeqLe(<<10, 0>>, version) /\ SeqLt(version, <<11, 0>>)
        THEN Flatten([k_ \in 1..Len(RangeDown(version[2], -1)) |-> OfMinor(RangeDown(version[2], -1)[k_])]) ELSE <<>>)
       \o (IF SeqLe(<<11, 0>>, version)
           THEN Flatten([k_ \in 1..Len(RangeDown(version[1], 10)) |-> OfMajor(RangeDown(version[1], 10)[k_])]) ELSE <<>>)
       \o (IF SeqLe(<<11, 0>>, version)
           THEN (IF arch = "x86_64" THEN Flatten([k_ \in 1..Len(RangeDown(16, 3)) |-> OfMinor(RangeDown(16, 3)[k_])])
                 ELSE Flatten([k_ \in 1..Len(RangeDown(16, 3)) |-> Universal2(RangeDown(16, 3)[k_])]))
           ELSE <<>>)

iter_macos_platform_tags ==
    LET reported == host.mac_ver.version_str
        arch == mac_arch(host.mac_ver.cpu_arch)
    IN IF ~mac_version_ok(reported) THEN Raise
       ELSE IF mac_reprobes
       THEN (IF host.mac_reprobe = None \/ ~mac_version_ok(host.mac_reprobe[1])
             THEN Raise
             ELSE LET version == mac_version(host.mac_reprobe[1])
                  IN IF Len(version) < 2 /\ SeqLe(<<10, 0>>, version)
                        /\ SeqLt(version, <<11, 0>>)
                     THEN Raise ELSE Yield(macos_tags_for(version, arch)))
       ELSE LET version == mac_version(reported)
            IN IF Len(version) < 2 /\ SeqLe(<<10, 0>>, version)
                  /\ SeqLt(version, <<11, 0>>)
               THEN Raise ELSE Yield(macos_tags_for(version, arch))

ios_tag(major, minor, multiarch) ==
    "ios_" \o Str(major) \o "_" \o Str(minor) \o "_" \o multiarch

\* iter_ios_platform_tags with the earlier majors going down to 11
iter_ios_platform_tags_from_11 ==
    LET parts == Take(Split(host.ios_release, ".", -1), 2)
        version == [i \in 1..Len(parts) |-> Int_(parts[i])]
        multiarch == Replace(sys.multiarch, "-", "_")
        OfMajor(major) == [i \in 1..10 |-> ios_tag(major, 10 - i, multiarch)]
    IN IF \E i \in 1..Len(parts) : ~IntOk(parts[i]) THEN Raise
       ELSE IF version[1] < 12 THEN Yield(<<>>)
       ELSE IF Len(version) < 2 THEN Raise
       ELSE Yield(<<ios_tag(version[1], version[2], multiarch)>>
                  \o [i \in 1..version[2] |->
                         ios_tag(version[1], version[2] - i, multiarch)]
                  \o Flatten([k_ \in 1..Len(RangeDown(version[1] - 1, 10)) |-> OfMajor(RangeDown(version[1] - 1, 10)[k_])]))

iter_ios_platform_tags ==
    LET parts == Take(Split(host.ios_release, ".", -1), 2)
        version == [i \in 1..Len(parts) |-> Int_(parts[i])]
        multiarch == Replace(sys.multiarch, "-", "_")
        OfMajor(major) == [i \in 1..10 |-> ios_tag(major, 10 - i, multiarch)]
    IN IF \E i \in 1..Len(parts) : ~IntOk(parts[i]) THEN Raise
       ELSE IF version[1] < 12 THEN Yield(<<>>)
       ELSE IF Len(version) < 2 THEN Raise
       ELSE Yield(<<ios_tag(version[1], version[2], multiarch)>>
                  \o [i \in 1..version[2] |->
                         ios_tag(version[1], version[2] - i, multiarch)]
                  \o Flatten([k_ \in 1..Len(RangeDown(version[1] - 1, 11)) |-> OfMajor(RangeDown(version[1] - 1, 11)[k_])]))

min_api_level == 16

\* iter_android_platform_tags stopping one API level above the minimum
iter_android_platform_tags_above_min ==
    LET parts == Split(host.get_platform, "-", -1)
        abi == normalize_string(parts[Len(parts)])
        levels == RangeDown(host.android_api_level, min_api_level)
    IN Yield([i \in 1..Len(levels) |-> "android_" \o Str(levels[i]) \o "_" \o abi])

iter_android_platform_tags ==
    LET parts == Split(host.get_platform, "-", -1)
        abi == normalize_string(parts[Len(parts)])
        levels == RangeDown(host.android_api_level, min_api_level - 1)
    IN Yield([i \in 1..Len(levels) |-> "android_" \o Str(levels[i]) \o "_" \o abi])

iter_generic_platform_tags == Yield(<<normalize_string(host.get_platform)>>)

\* main's choice of iter_supported_platform_tags by OS = platform.system().lower()
iter_supported_platform_tags(info, table) ==
    CASE host.OS = "android" -> iter_android_platform_tags
      [] host.OS = "ios" -> iter_ios_platform_tags
      [] host.OS = "darwin" -> iter_macos_platform_tags
      [] host.OS = "linux" -> iter_linux_platform_tags(info, table)
      [] OTHER -> iter_generic_platform_tags

(***************************************************************************)
(* The ABI tag builder.                                                    *)
(***************************************************************************)
INTERPRETER_SHORT_NAMES ==
    [n \in {"python", "cpython", "pypy", "ironpython", "jython"} |->
        CASE n = "python" -> "py"
          [] n = "cpython" -> "cp"
          [] n = "pypy" -> "pp"
          [] n = "ironpython" -> "ip"
          [] n = "jython" -> "jy"]

\* INTERPRETER_SHORT_NAMES.get(name): None for a name the table does not hold
interpreter_name ==
    IF sys.implementation_name \in DOMAIN INTERPRETER_SHORT_NAMES
    THEN Some(INTERPRETER_SHORT_NAMES[sys.implementation_name])
    ELSE None

interpreter_version ==
    IF get_config_var("py_version_nodot") # None
       /\ get_config_var("py_version_nodot")[1] # ""
    THEN get_config_var("py_version_nodot")[1]
    ELSE version_nodot(sys.version_info)

\* re.match(r"cp\d+(.*)", abis[0]) and "t" in its group
is_threaded_cpython(abi_list) ==
    IF Len(abi_list) = 0 THEN FALSE
    ELSE LET first == abi_list[1]
             rest == SubSeq(first, 3, Len(first))
             n == LeadingDigits(rest)
         IN IF ~StartsWith(first, "cp") \/ n = 0 THEN FALSE
            ELSE InStr("t", SubSeq(rest, n + 1, Len(rest)))

\* abi3_applies without the threaded-build exclusion
abi3_applies_threaded_too(python_version, threading) ==
    Len(python_version) > 1 /\ ~SeqLt(python_version, <<3, 2>>)

abi3_applies(python_version, threading) ==
    Len(python_version) > 1 /\ ~SeqLt(python_version, <<3, 2>>) /\ ~threading

\* the debug flag of cpython_abis
debug_flag ==
    IF TruthyInt(get_config_var("Py_DEBUG"))
       \/ (get_config_var("Py_DEBUG") = None /\ (sys.has_refcount \/ sys.has_ext))
    THEN "d" ELSE ""

threading_flag(py_version) ==
    IF ~SeqLt(py_version, <<3, 13>>) /\ TruthyInt(get_config_var("Py_GIL_DISABLED"))
    THEN "t" ELSE ""

pymalloc_flag(py_version) ==
    IF SeqLt(py_version, <<3, 8>>)
       /\ (TruthyInt(get_config_var("WITH_PYMALLOC"))
           \/ get_config_var("WITH_PYMALLOC") = None)
    THEN "m" ELSE ""

ucs4_flag(py_version) ==
    IF SeqLt(py_version, <<3, 3>>)
       /\ (get_config_var("Py_UNICODE_SIZE") = Some(4)
           \/ (get_config_var("Py_UNICODE_SIZE") = None /\ sys.maxunicode_wide))
    THEN "u" ELSE ""

\* cpython_abis with the non-debug token put before the primary token
cpython_abis_nondebug_first(py_version) ==
    LET version == version_nodot(Take(py_version, 2))
        threading == threading_flag(py_version)
        appended == IF ~SeqLt(py_version, <<3, 8>>) /\ debug_flag # ""
                    THEN <<"cp" \o version \o threading>> ELSE <<>>
    IN appended
       \o <<"cp" \o version \o threading \o debug_flag
            \o pymalloc_flag(py_version) \o ucs4_flag(py_version)>>

\* cpython_abis with the non-debug token added for a debug build of any version
cpython_abis_debug_pair_always(py_version) ==
    LET version == version_nodot(Take(py_version, 2))
        threading == threading_flag(py_version)
        appended == IF debug_flag # ""
                    THEN <<"cp" \o version \o threading>> ELSE <<>>
    IN <<"cp" \o version \o threading \o debug_flag
         \o pymalloc_flag(py_version) \o ucs4_flag(py_version)>> \o appended

\* cpython_abis with the debug flag put before the threading flag
cpython_abis_debug_before_threading(py_version) ==
    LET version == version_nodot(Take(py_version, 2))
        threading == threading_flag(py_version)
        appended == IF ~SeqLt(py_version, <<3, 8>>) /\ debug_flag # ""
                    THEN <<"cp" \o version \o threading>> ELSE <<>>
    IN <<"cp" \o version \o debug_flag \o threading
         \o pymalloc_flag(py_version) \o ucs4_flag(py_version)>> \o appended

cpython_abis(py_version) ==
    LET version == version_nodot(Take(py_version, 2))
        threading == threading_flag(py_version)
        debug == debug_flag
        appended == IF ~SeqLt(py_version, <<3, 8>>) /\ debug # ""
                    THEN <<"cp" \o version \o threading>> ELSE <<>>
    IN <<"cp" \o version \o threading \o debug
         \o pymalloc_flag(py_version) \o ucs4_flag(py_version)>> \o appended

\* get_config_var("EXT_SUFFIX") or get_config_var("SO")
ext_suffix ==
    IF get_config_var("EXT_SUFFIX") # None /\ get_config_var("EXT_SUFFIX")[1] # ""
    THEN get_config_var("EXT_SUFFIX")
    ELSE get_config_var("SO")

\* generic_abi without the check of the leading "."
generic_abi_any_prefix ==
    IF ext_suffix = None \/ ext_suffix[1] = "" THEN Raise
    ELSE LET parts == Split(ext_suffix[1], ".", -1)
         IN IF Len(parts) < 3 THEN Yield(cpython_abis(sys.version_info))
            ELSE IF parts[2] # "" THEN Yield(<<normalize_string(parts[2])>>)
            ELSE Yield(<<>>)

\* generic_abi(): the ABI list, or the exception
generic_abi ==
    IF ext_suffix = None \/ ext_suffix[1] = "" \/ Head(ext_suffix[1]) # "."
    THEN Raise
    ELSE LET parts == Split(ext_suffix[1], ".", -1)
             soabi == parts[2]
             pieces == Split(soabi, "-", -1)
         IN IF Len(parts) < 3 THEN Yield(cpython_abis(sys.version_info))
            ELSE IF StartsWith(soabi, "cpython")
            THEN (IF Len(pieces) < 2 THEN Raise
                  ELSE Yield(<<normalize_string("cp" \o pieces[2])>>))
            ELSE IF StartsWith(soabi, "cp")
            THEN Yield(<<normalize_string(pieces[1])>>)
            ELSE IF StartsWith(soabi, "pypy")
            THEN Yield(<<normalize_string(Join("-", Take(pieces, 2)))>>)
            ELSE IF StartsWith(soabi, "graalpy")
            THEN Yield(<<normalize_string(Join("-", Take(pieces, 3)))>>)
            ELSE IF soabi # ""
            THEN Yield(<<normalize_string(soabi)>>)
            ELSE Yield(<<>>)

(***************************************************************************)
(* The tag triple assembler.                                               *)
(***************************************************************************)
\* for abi in abi_list: for platform_ in platforms: yield interpreter, abi, platform_
Cross(interpreter, abi_list, platform_list) ==
    LET OfAbi(abi) ==
            [i \in 1..Len(platform_list) |-> <<interpreter, abi, platform_list[i]>>]
    IN Flatten([k_ \in 1..Len(abi_list) |-> OfAbi(abi_list[k_])])

\* list.remove(x): without the first occurrence of x, unchanged when x is absent
RECURSIVE Remove(_, _)
Remove(seq, x) ==
    IF seq = <<>> THEN <<>>
    ELSE IF Head(seq) = x THEN Tail(seq)
    ELSE <<Head(seq)>> \o Remove(Tail(seq), x)

\* the ABI list cpython_tags iterates over
cpython_tags_abis ==
    Remove(Remove(cpython_abis(sys.version_info), "abi3"), "none")

\* the cp<major><minor>-abi3 tags of the earlier minor versions
historical_abi3_tags(python_version, platform_list) ==
    LET OfMinor(minor_version) ==
            Cross("cp" \o version_nodot(<<python_version[1], minor_version>>),
                  <<"abi3">>, platform_list)
    IN Flatten([k_ \in 1..Len(RangeDown(python_version[2] - 1, 1)) |-> OfMinor(RangeDown(python_version[2] - 1, 1)[k_])])

\* cpython_tags with the none tier yielded before the abi3 tier
cpython_tags_none_before_abi3(platform_list) ==
    LET python_version == sys.version_info
        interpreter == "cp" \o version_nodot(python_version)
        abi_list == cpython_tags_abis
        use_abi3 == abi3_applies(python_version, is_threaded_cpython(abi_list))
    IN Cross(interpreter, abi_list, platform_list)
       \o Cross(interpreter, <<"none">>, platform_list)
       \o (IF use_abi3 THEN Cross(interpreter, <<"abi3">>, platform_list) ELSE <<>>)
       \o (IF use_abi3 THEN historical_abi3_tags(python_version, platform_list)
           ELSE <<>>)

cpython_tags(platform_list) ==
    LET python_version == sys.version_info
        interpreter == "cp" \o version_nodot(python_version)
        abi_list == cpython_tags_abis
        use_abi3 == abi3_applies(python_version, is_threaded_cpython(abi_list))
    IN Cross(interpreter, abi_list, platform_list)
       \o (IF use_abi3 THEN Cross(interpreter, <<"abi3">>, platform_list) ELSE <<>>)
       \o Cross(interpreter, <<"none">>, platform_list)
       \o (IF use_abi3 THEN historical_abi3_tags(python_version, platform_list)
           ELSE <<>>)

\* the ABI list generic_tags iterates over, for a generic_abi() that returned
generic_tags_abis ==
    IF Contains(generic_abi.tags, "none") THEN generic_abi.tags
    ELSE generic_abi.tags \o <<"none">>

\* "".join([interp_name, interp_version]) raises for the interp_name None
generic_tags(platform_list) ==
    IF interpreter_name = None \/ ~generic_abi.ok THEN Raise
    ELSE Yield(Cross(interpreter_name[1] \o interpreter_version,
                     generic_tags_abis, platform_list))

\* for version in versions: for platform_ in platforms: yield version, "none", platform_
Cross_versions(versions, platform_list) ==
    LET OfVersion(version) == Cross(version, <<"none">>, platform_list)
    IN Flatten([k_ \in 1..Len(versions) |-> OfVersion(versions[k_])])

\* py_interpreter_range yielding the major-only version last
py_interpreter_range_major_last(py_version) ==
    (IF Len(py_version) > 1
     THEN [i \in 1..(py_version[2] + 1) |->
              "py" \o version_nodot(<<py_version[1], py_version[2] + 1 - i>>)]
     ELSE <<>>)
    \o <<"py" \o Str(py_version[1])>>

py_interpreter_range(py_version) ==
    (IF Len(py_version) > 1 THEN <<"py" \o version_nodot(Take(py_version, 2))>>
     ELSE <<>>)
    \o <<"py" \o Str(py_version[1])>>
    \o (IF Len(py_version) > 1
        THEN [i \in 1..py_version[2] |->
                 "py" \o version_nodot(<<py_version[1], py_version[2] - i>>)]
        ELSE <<>>)

\* compatible_tags yielding <interpreter>-none-any after the py*-none-any tags
compatible_tags_interpreter_last(platform_list, interpreter) ==
    LET versions == py_interpreter_range(sys.version_info)
    IN Cross_versions(versions, platform_list)
       \o [i \in 1..Len(versions) |-> <<versions[i], "none", "any">>]
       \o (IF interpreter # None /\ interpreter[1] # ""
           THEN <<<<interpreter[1], "none", "any">>>> ELSE <<>>)

compatible_tags(platform_list, interpreter) ==
    LET versions == py_interpreter_range(sys.version_info)
    IN Cross_versions(versions, platform_list)
       \o (IF interpreter # None /\ interpreter[1] # ""
           THEN <<<<interpreter[1], "none", "any">>>> ELSE <<>>)
       \o [i \in 1..Len(versions) |-> <<versions[i], "none", "any">>]

\* the short interpreter identifier iter_supported_tags hands to compatible_tags
short_interpreter ==
    IF interpreter_name = Some("pp") /\ sys.version_info[1] = 3 THEN Some("pp3")
    ELSE IF interpreter_name = Some("cp") THEN Some("cp" \o interpreter_version)
    ELSE None

iter_supported_tags(platform_list) ==
    LET specific == IF interpreter_name = Some("cp")
                    THEN Yield(cpython_tags(platform_list))
                    ELSE generic_tags(platform_list)
    IN IF ~specific.ok THEN Raise
       ELSE Yield(specific.tags \o compatible_tags(platform_list, short_interpreter))

\* the ABI list the interpreter-specific tier was built from
supported_abis ==
    IF interpreter_name = Some("cp") THEN cpython_tags_abis
    ELSE IF generic_abi.ok THEN generic_tags_abis
    ELSE <<>>

(***************************************************************************)
(* The document builder.                                                   *)
(***************************************************************************)
\* identify(...)["supported_tags"]: ["-".join(tag) for tag in supported_tags]
identify(tag_list) == [i \in 1..Len(tag_list) |-> Join("-", tag_list[i])]

(***************************************************************************)
(* The inputs of a resolution: the interpreter, its build configuration,   *)
(* the host and the --linux-info document.                                 *)
(***************************************************************************)
NoManylinuxModule ==
    [present |-> FALSE, has_compatible |-> FALSE, compatible_result |-> "None",
     legacy |-> None]

\* _manylinux modules: absent; manylinux_compatible returning None, True or False;
\* only the legacy manylinux1/2010/2014_compatible attributes, set to False
ManylinuxModules ==
    {NoManylinuxModule}
    \cup {[present |-> TRUE, has_compatible |-> TRUE, compatible_result |-> r,
           legacy |-> None] : r \in {"None", "True", "False"}}
    \cup {[present |-> TRUE, has_compatible |-> FALSE, compatible_result |-> "None",
           legacy |-> Some(FALSE)]}

Host(os, get_platform, is32) ==
    [OS |-> os, get_platform |-> get_platform, is32 |-> is32,
     glibc_version_string |-> Some("2.31"),
     manylinux_module |-> NoManylinuxModule,
     mac_ver |-> [version_str |-> "", cpu_arch |-> ""], mac_reprobe |-> None,
     ios_release |-> "", android_api_level |-> 0]

MacHost(version_str, cpu_arch, is32, reprobe) ==
    [Host("darwin", "macosx-10.9-universal2", is32) EXCEPT
        !.mac_ver = [version_str |-> version_str, cpu_arch |-> cpu_arch],
        !.mac_reprobe = reprobe]

IosHost(release) ==
    [Host("ios", "ios-13.0-arm64-iphoneos", FALSE) EXCEPT !.ios_release = release]

AndroidHost(api_level) ==
    [Host("android", "android-21-arm64_v8a", FALSE) EXCEPT
        !.android_api_level = api_level]

Manylinux(glibc, armhf, i686) ==
    [manylinux |-> Some([glibc |-> glibc, armhf |-> armhf, i686 |-> i686]),
     musllinux |-> None]

Musllinux(version) == [manylinux |-> None, musllinux |-> Some(version)]

\* a --linux-info document without either record
NoLinuxInfo == [manylinux |-> None, musllinux |-> None]

\* the sysconfig platform and pointer width of the Linux interpreters checked
LinuxInterpreters ==
    {<<"linux-x86_64", FALSE>>, <<"linux-x86_64", TRUE>>, <<"linux-i686", TRUE>>,
     <<"linux-aarch64", FALSE>>, <<"linux-aarch64", TRUE>>, <<"linux-armv7l", TRUE>>,
     <<"linux-ppc64le", FALSE>>, <<"linux-mips64", FALSE>>}

GlibcVersions ==
    {<<-1, -1>>} \cup ((2..MaxGlibcMajor) \X (0..MaxGlibcMinor))

MuslVersions == {1} \X (0..MaxMuslMinor)

PyVersions == {<<2, 7>>} \cup ({3} \X (0..MaxPyMinor))

Sys(implementation_name, version_info) ==
    [implementation_name |-> implementation_name, version_info |-> version_info,
     has_refcount |-> FALSE, has_ext |-> FALSE, maxunicode_wide |-> TRUE,
     multiarch |-> "arm64-iphoneos"]

ConfigVars(debug, gil_disabled, suffix) ==
    [Py_DEBUG |-> debug, Py_GIL_DISABLED |-> gil_disabled, WITH_PYMALLOC |-> None,
     Py_UNICODE_SIZE |-> None, EXT_SUFFIX |-> suffix, SO |-> None,
     py_version_nodot |-> None]

\* what main() has not computed yet
Start ==
    /\ pc = "start"
    /\ LAST_GLIBC_MINOR = <<>>
    /\ platforms = <<>>
    /\ abis = <<>>
    /\ tags = <<>>
    /\ supported_tags = <<>>
    /\ previous = None
    /\ stdout = None
    /\ subprocesses = <<>>

\* main() writing to sys.stdout
ToStdout ==
    /\ output_path = None
    /\ file = None

\* the state of the resolver (interpreter.py)
resolver == <<pc, sys, config_vars, host, linux_info, LAST_GLIBC_MINOR,
              platforms, abis, tags, supported_tags, previous,
              output_path, file, stdout, subprocesses>>

(***************************************************************************)
(* The launcher (src/src/python/pexcz/__init__.py): the identification of  *)
(* the OS and the chip architecture when the module is imported, and       *)
(* boot(), which hands over to the native library.                         *)
(***************************************************************************)
\* str.lower
RECURSIVE Lower(_)
Lower(s) ==
    LET UpperCase == <<"A", "B", "C", "D", "E", "F", "G", "H", "I", "J", "K", "L", "M",
                       "N", "O", "P", "Q", "R", "S", "T", "U", "V", "W", "X", "Y", "Z">>
        LowerCase == <<"a", "b", "c", "d", "e", "f", "g", "h", "i", "j", "k", "l", "m",
                       "n", "o", "p", "q", "r", "s", "t", "u", "v", "w", "x", "y", "z">>
    IN IF s = "" THEN ""
       ELSE (IF \E i \in 1..26 : UpperCase[i] = Head(s)
             THEN LowerCase[CHOOSE i \in 1..26 : UpperCase[i] = Head(s)]
             ELSE Head(s))
            \o Lower(Tail(s))

\* OperatingSystem.current with LINUX for an operating system it does not know
OperatingSystem_current_fallback ==
    LET operating_system == Lower(host.OS)
    IN IF operating_system = "darwin" THEN [ok |-> TRUE, name |-> "macos"]
       ELSE IF operating_system = "windows" THEN [ok |-> TRUE, name |-> "windows"]
       ELSE [ok |-> TRUE, name |-> "linux"]

\* OperatingSystem.current(): the OperatingSystem, or the ValueError
OperatingSystem_current ==
    LET operating_system == Lower(host.OS)
    IN IF operating_system = "linux" THEN [ok |-> TRUE, name |-> "linux"]
       ELSE IF operating_system = "darwin" THEN [ok |-> TRUE, name |-> "macos"]
       ELSE IF operating_system = "windows" THEN [ok |-> TRUE, name |-> "windows"]
       ELSE [ok |-> FALSE, name |-> "Unsupported OS: " \o operating_system]

\* Arch.current(): the Arch, or the ValueError
Arch_current ==
    LET machine == Lower(boot_request.machine)
    IN IF machine \in {"aarch64", "arm64"} THEN [ok |-> TRUE, name |-> "aarch64"]
       ELSE IF machine \in {"armv7l", "armv8l"} THEN [ok |-> TRUE, name |-> "arm"]
       ELSE IF machine = "ppc64le" THEN [ok |-> TRUE, name |-> "powerpc64le"]
       ELSE IF machine \in {"amd64", "x86_64"} THEN [ok |-> TRUE, name |-> "x86_64"]
       ELSE [ok |-> FALSE, name |-> "Unsupported chip architecture: " \o machine]

\* the terminating nul byte of a C string
NUL == "\\x00"

\* value.encode("utf-8") + b"\x00"
to_cstr(value) == value \o NUL

\* a ctypes array of len(values) + 1 char pointers whose last one is None
to_array_of_cstr(values) ==
    [i \in 1..Len(values) |-> Some(to_cstr(values[i]))] \o <<None>>

\* python or sys.executable
boot_python(r) ==
    IF r.python # None /\ r.python[1] # "" THEN r.python[1] ELSE r.sys_executable

\* the argv array boot() builds
boot_argv(r) ==
    to_array_of_cstr(
        IF r.python_args # <<>> \/ r.args # <<>>
        THEN <<boot_python(r)>> \o r.python_args \o <<r.pex>> \o r.args
        ELSE r.sys_argv)

\* the environ array boot() builds from (env or os.environ).items()
boot_environ(r) ==
    LET items == IF r.env # None /\ r.env[1] # <<>> THEN r.env[1] ELSE r.os_environ
    IN to_array_of_cstr([i \in 1..Len(items) |-> items[i][1] \o "=" \o items[i][2]])

\* the arguments boot() calls _pexcz.boot with; on Windows the copy of the
\* launcher under python/pexcz passes the two paths only
boot_call(r) ==
    IF CURRENT_OS = Some("windows")
    THEN (IF r.module = "src/src/python/pexcz"
          THEN <<to_cstr(boot_python(r)), to_cstr(r.pex), boot_argv(r)>>
          ELSE <<to_cstr(boot_python(r)), to_cstr(r.pex)>>)
    ELSE <<to_cstr(boot_python(r)), to_cstr(r.pex), boot_argv(r), boot_environ(r)>>

\* _load_pexcz has not touched a temporary directory
NoCleanup == [rmtree_calls |-> 0, atexit |-> <<>>, warnings |-> <<>>]

\* _load_pexcz(): the error its try block ends with (None: the library is
\* returned), and what its finally block does about the temporary directory.
\* shutil.rmtree takes onexc from Python 3.12 on and raises TypeError for it
\* before.
load_pexcz(r, os_name) ==
    LET body == IF ~r.library_found
                THEN Some("Pexcz is not supported: no pexcz library found.")
                ELSE IF ~r.write_ok THEN Some("IOError")
                ELSE IF ~r.load_ok
                THEN Some(IF r.module = "src/src/python/pexcz"
                          THEN "Failed to load pexcz library" ELSE "OSError")
                ELSE None
        onerror == SeqLt(r.py_version,
                         IF r.module = "src/src/python/pexcz" THEN <<3, 12>> ELSE <<2, 12>>)
    IN IF os_name = "windows"
       THEN [raised |-> body,
             cleanup |-> [NoCleanup EXCEPT !.atexit =
                             <<[path |-> "pexcz.dll",
                                dll |-> IF body = None THEN Some("pexcz") ELSE None]>>]]
       ELSE IF ~onerror /\ SeqLt(r.py_version, <<3, 12>>)
       THEN [raised |-> Some("TypeError: rmtree() got an unexpected keyword argument 'onexc'"),
             cleanup |-> [NoCleanup EXCEPT !.rmtree_calls = 1]]
       ELSE [raised |-> body,
             cleanup |-> [NoCleanup EXCEPT
                             !.rmtree_calls = 1,
                             !.warnings = IF r.rmtree_ok THEN <<>>
                                          ELSE <<"Failed to clean up extracted library resource">>]]

\* no launcher runs
NoLauncher ==
    /\ boot_request = <<>>
    /\ boot_pc = "none"
    /\ CURRENT_OS = None
    /\ CURRENT_ARCH = None
    /\ raised = None
    /\ native_call = None
    /\ exit_code = None
    /\ cleanup = NoCleanup

\* import pexcz: CURRENT_OS, CURRENT_ARCH and the native library are set up
\* by the module body; an error of any of them ends the import
ImportPexcz ==
    /\ boot_pc = "import"
    /\ LET os == OperatingSystem_current
           arch == Arch_current
       IN IF ~os.ok
          THEN /\ raised' = Some(os.name)
               /\ CURRENT_OS' = None
               /\ CURRENT_ARCH' = None
               /\ boot_pc' = "failed"
               /\ cleanup' = cleanup
          ELSE IF ~arch.ok
          THEN /\ raised' = Some(arch.name)
               /\ CURRENT_OS' = Some(os.name)
               /\ CURRENT_ARCH' = None
               /\ boot_pc' = "failed"
               /\ cleanup' = cleanup
          ELSE /\ CURRENT_OS' = Some(os.name)
               /\ CURRENT_ARCH' = Some(arch.name)
               /\ LET loaded == load_pexcz(boot_request, os.name)
                  IN /\ raised' = loaded.raised
                     /\ cleanup' = loaded.cleanup
                     /\ boot_pc' = IF loaded.raised = None THEN "loaded" ELSE "failed"
    /\ UNCHANGED <<boot_request, native_call, exit_code>>
    /\ UNCHANGED resolver

\* boot(pex, python, python_args, args, env): sys.exit(_pexcz.boot(...))
Boot ==
    /\ boot_pc = "loaded"
    /\ native_call' = Some(boot_call(boot_request))
    /\ exit_code' = Some(boot_request.native_result)
    /\ boot_pc' = "exited"
    /\ UNCHANGED <<boot_request, CURRENT_OS, CURRENT_ARCH, raised, cleanup>>
    /\ UNCHANGED resolver

(***************************************************************************)
(* main(): the platform tags, the tag triples, the document.               *)
(***************************************************************************)
\* "with output(file_path=path) as out": open(file_path, "w") leaves an empty
\* file at the path, sys.stdout is left as it is
opened_output == IF output_path = None THEN file ELSE Some(<<>>)

EnumeratePlatforms ==
    /\ pc = "start"
    /\ LET r == iter_supported_platform_tags(linux_info, LAST_GLIBC_MINOR)
       IN /\ pc' = IF r.ok THEN "platforms" ELSE "failed"
          /\ platforms' = r.tags
    /\ LAST_GLIBC_MINOR' =
           IF host.OS = "linux" THEN linux_table_after(linux_info, LAST_GLIBC_MINOR)
           ELSE LAST_GLIBC_MINOR
    /\ subprocesses' = platform_subprocesses
    /\ file' = opened_output
    /\ UNCHANGED <<sys, config_vars, host, linux_info, abis, tags, supported_tags,
                   previous, output_path, stdout>>
    /\ UNCHANGED launcher

AssembleTags ==
    /\ pc = "platforms"
    /\ LET r == iter_supported_tags(platforms)
       IN /\ pc' = IF r.ok THEN "tags" ELSE "failed"
          /\ tags' = r.tags
          /\ abis' = IF r.ok THEN supported_abis ELSE <<>>
    /\ UNCHANGED <<sys, config_vars, host, linux_info, LAST_GLIBC_MINOR, platforms,
                   supported_tags, previous, output_path, file, stdout, subprocesses>>
    /\ UNCHANGED launcher

Identify ==
    /\ pc = "tags"
    /\ supported_tags' = identify(tags)
    /\ IF output_path = None
       THEN stdout' = Some(identify(tags)) /\ file' = file
       ELSE file' = Some(identify(tags)) /\ stdout' = stdout
    /\ pc' = "done"
    /\ UNCHANGED <<sys, config_vars, host, linux_info, LAST_GLIBC_MINOR, platforms,
                   abis, tags, previous, output_path, subprocesses>>
    /\ UNCHANGED launcher

\* A second resolution on the same inputs: main() run again in the same
\* process, where the module-level _LAST_GLIBC_MINOR keeps what the first
\* resolution inserted, or in a new process, where the module is loaded anew.
ResolveAgain ==
    /\ pc = "done"
    /\ previous = None
    /\ previous' = Some(supported_tags)
    /\ \E same_process \in BOOLEAN :
          LAST_GLIBC_MINOR' = IF same_process THEN LAST_GLIBC_MINOR ELSE <<>>
    /\ pc' = "start"
    /\ platforms' = <<>>
    /\ abis' = <<>>
    /\ tags' = <<>>
    /\ supported_tags' = <<>>
    /\ stdout' = None
    /\ subprocesses' = <<>>
    /\ UNCHANGED <<sys, config_vars, host, linux_info, output_path, file>>
    /\ UNCHANGED launcher

Next == EnumeratePlatforms \/ AssembleTags \/ Identify

\* a caller that resolves a second time
NextMain == Next \/ ResolveAgain

(***************************************************************************)
(* Linux hosts: every glibc and musl version, architecture and _manylinux  *)
(* module, under one CPython.                                              *)
(***************************************************************************)
InitLinux ==
    /\ Start
    /\ NoLauncher
    /\ ToStdout
    /\ sys = Sys("cpython", <<3, 2>>)
    /\ config_vars = ConfigVars(Some(0), None, Some(".cpython-32m.so"))
    /\ \E li \in LinuxInterpreters, m \in ManylinuxModules :
          host = [Host("linux", li[1], li[2]) EXCEPT !.manylinux_module = m]
    /\ linux_info \in
           {Manylinux(Some(g), armhf, i686) :
               g \in GlibcVersions, armhf \in BOOLEAN, i686 \in BOOLEAN}
           \cup {Musllinux(v) : v \in MuslVersions}
           \cup {NoLinuxInfo}

SpecLinux == InitLinux /\ [][Next]_vars

(***************************************************************************)
(* Every interpreter implementation and version on a few hosts of every OS *)
(* family.                                                                 *)
(***************************************************************************)
ImplementationNames == {"cpython", "pypy", "python", "ironpython", "jython", "graalpy"}

\* EXT_SUFFIX of the interpreters that are not CPython; None: not configured
ExtSuffixes ==
    {Some(".pypy39-pp73-x86_64-linux-gnu.so"), Some(".graalpy-38-native-x86_64-darwin.dylib"),
     Some(".pyd"), None}

Interpreters ==
    {<<Sys("cpython", v), [ConfigVars(d, g, Some(".cpython-39-x86_64-linux-gnu.so"))
                             EXCEPT !.py_version_nodot = n]>> :
        v \in PyVersions, d \in {Some(0), Some(1)}, g \in {None, Some(1)},
        n \in {None} \cup {Some(version_nodot(w)) : w \in PyVersions}}
    \cup {<<Sys(impl, v), ConfigVars(Some(0), None, suffix)>> :
            impl \in ImplementationNames \ {"cpython"}, v \in PyVersions,
            suffix \in ExtSuffixes}

\* a host and its --linux-info document (on Linux)
Hosts ==
    {<<Host("linux", li[1], li[2]), info>> :
        li \in {<<"linux-x86_64", FALSE>>, <<"linux-aarch64", TRUE>>},
        info \in {Manylinux(Some(<<2, 28>>), TRUE, TRUE),
                  Manylinux(Some(<<2, 17>>), TRUE, TRUE),
                  Musllinux(<<1, MaxMuslMinor>>), NoLinuxInfo}}
    \cup {<<MacHost(v, arch, FALSE, Some("11.2.3\n")), NoLinuxInfo>> :
            v \in {"10.15.7", "10.16", "11.0", "12.3.1"}, arch \in {"x86_64", "arm64"}}
    \cup {<<IosHost(r), NoLinuxInfo>> : r \in {"11.4", "13.1"}}
    \cup {<<AndroidHost(l), NoLinuxInfo>> : l \in {15, 21}}
    \cup {<<Host("windows", p, FALSE), NoLinuxInfo>> : p \in {"win-amd64", "win32"}}

Init ==
    /\ Start
    /\ NoLauncher
    /\ ToStdout
    /\ \E i \in Interpreters :
          /\ sys = i[1]
          /\ config_vars = i[2]
          /\ i[2].py_version_nodot \in {None, Some(version_nodot(i[1].version_info))}
    /\ \E h \in Hosts :
          /\ host = h[1]
          /\ linux_info = h[2]

Spec == Init /\ [][Next]_vars

(***************************************************************************)
(* Every CPython build configuration on one host.                          *)
(***************************************************************************)
OptionalFlags == {None, Some(0), Some(1)}

InitAbi ==
    /\ Start
    /\ NoLauncher
    /\ ToStdout
    /\ \E v \in PyVersions, r \in BOOLEAN, e \in BOOLEAN, w \in BOOLEAN :
          sys = [Sys("cpython", v) EXCEPT
                    !.has_refcount = r, !.has_ext = e, !.maxunicode_wide = w]
    /\ \E d \in OptionalFlags, g \in OptionalFlags, m \in OptionalFlags,
          u \in {None, Some(2), Some(4)} :
          config_vars = [ConfigVars(d, g, Some(".cp39-win_amd64.pyd")) EXCEPT
                            !.WITH_PYMALLOC = m, !.Py_UNICODE_SIZE = u]
    /\ host = Host("windows", "win-amd64", FALSE)
    /\ linux_info = NoLinuxInfo

SpecAbi == InitAbi /\ [][Next]_vars

(***************************************************************************)
(* main() as its callers drive it: with and without an output path, on     *)
(* hosts and interpreters it fails on, and resolving a second time.        *)
(***************************************************************************)
\* the output_path argument and the file at that path before main() runs
Outputs ==
    {<<None, None>>, <<Some("out.json"), None>>,
     <<Some("out.json"), Some(<<"previous content">>)>>}

\* what the macOS re-probe subprocess prints; None: it fails
ReprobeOutputs == {None, Some("12.6\n"), Some("11.2.3\n"), Some("10.16\n"), Some("\n")}

\* what glibc_version_string() returns; None: no glibc found
GlibcVersionStrings ==
    {None, Some("2.31"), Some("2.20-2014.11"), Some("unknown"), Some("2."), Some(""),
     Some("glibc 2.17")}

MainHosts ==
    {h \in Hosts : h[1].OS # "linux"}
    \cup {<<MacHost(v, arch, FALSE, r), NoLinuxInfo>> :
            v \in {"10.15.7", "10.16", "10.16.1", "11.0", "unknown"},
            arch \in {"x86_64", "arm64"}, r \in ReprobeOutputs}
    \cup {<<Host("linux", "linux-x86_64", FALSE), info>> :
            info \in {Manylinux(Some(<<2, 17>>), TRUE, TRUE), NoLinuxInfo}}

\* interpreters with a well-formed, a malformed and no EXT_SUFFIX, and one of
\* an implementation INTERPRETER_SHORT_NAMES does not hold
MainInterpreters ==
    {<<Sys("cpython", <<3, 2>>), ConfigVars(Some(0), None, Some(".cpython-32m.so"))>>,
     <<Sys("pypy", <<3, 9>>), ConfigVars(Some(0), None, Some(".pypy39-pp73-x86_64-linux-gnu.so"))>>,
     <<Sys("pypy", <<3, 9>>), ConfigVars(Some(0), None, Some("pypy39-pp73.so"))>>,
     <<Sys("pypy", <<3, 9>>), ConfigVars(Some(0), None, None)>>,
     <<Sys("pypy", <<3, 9>>), ConfigVars(Some(0), None, Some(".pyd"))>>,
     <<Sys("graalpy", <<3, 9>>),
       ConfigVars(Some(0), None, Some(".graalpy-38-native-x86_64-darwin.dylib"))>>}

InitMain ==
    /\ Start
    /\ NoLauncher
    /\ \/ /\ ToStdout
          /\ sys = Sys("cpython", <<3, 2>>)
          /\ config_vars = ConfigVars(Some(0), None, Some(".cpython-32m.so"))
          /\ \E li \in LinuxInterpreters : host = Host("linux", li[1], li[2])
          /\ linux_info \in
                 {Manylinux(Some(g), TRUE, TRUE) : g \in GlibcVersions}
                 \cup {Musllinux(v) : v \in MuslVersions}
                 \cup {NoLinuxInfo}
       \/ /\ ToStdout
          /\ sys = Sys("cpython", <<3, 2>>)
          /\ config_vars = ConfigVars(Some(0), None, Some(".cpython-32m.so"))
          /\ \E li \in LinuxInterpreters, g \in GlibcVersionStrings :
                host = [Host("linux", li[1], li[2]) EXCEPT !.glibc_version_string = g]
          /\ linux_info \in
                 {Manylinux(None, armhf, i686) : armhf \in BOOLEAN, i686 \in BOOLEAN}
       \/ /\ \E o \in Outputs :
                /\ output_path = o[1]
                /\ file = o[2]
          /\ \E i \in MainInterpreters :
                /\ sys = i[1]
                /\ config_vars = i[2]
          /\ \E h \in MainHosts :
                /\ host = h[1]
                /\ linux_info = h[2]

SpecMain == InitMain /\ [][NextMain]_vars

(***************************************************************************)
(* The launcher and the resolver on the same environment: supported and    *)
(* unsupported operating systems and machines, and boot() with and without *)
(* its optional arguments.                                                 *)
(***************************************************************************)
\* the host of the resolver and platform.machine() of the same environment
BootEnvironments ==
    {<<Host("linux", "linux-x86_64", FALSE), Manylinux(Some(<<2, 17>>), TRUE, TRUE), "x86_64">>,
     <<Host("linux", "linux-aarch64", FALSE), Manylinux(Some(<<2, 17>>), TRUE, TRUE), "aarch64">>,
     <<Host("linux", "linux-armv7l", TRUE), Manylinux(Some(<<2, 17>>), TRUE, TRUE), "armv7l">>,
     <<Host("linux", "linux-armv8l", TRUE), Musllinux(<<1, 1>>), "armv8l">>,
     <<Host("linux", "linux-ppc64le", FALSE), Manylinux(Some(<<2, 17>>), TRUE, TRUE), "ppc64le">>,
     <<Host("linux", "linux-i686", TRUE), Manylinux(Some(<<2, 17>>), TRUE, TRUE), "i686">>,
     <<Host("linux", "linux-mips64", FALSE), Manylinux(Some(<<2, 17>>), TRUE, TRUE), "mips64">>,
     <<Host("linux", "linux-riscv64", FALSE), Musllinux(<<1, 1>>), "riscv64">>,
     <<MacHost("12.3.1", "arm64", FALSE, None), NoLinuxInfo, "arm64">>,
     <<MacHost("11.0", "x86_64", FALSE, None), NoLinuxInfo, "x86_64">>,
     <<Host("windows", "win-amd64", FALSE), NoLinuxInfo, "AMD64">>,
     <<Host("windows", "win-arm64", FALSE), NoLinuxInfo, "ARM64">>,
     <<Host("windows", "win32", TRUE), NoLinuxInfo, "x86">>,
     <<Host("windows", "win-ia64", FALSE), NoLinuxInfo, "IA64">>,
     <<Host("freebsd", "freebsd-14.0-RELEASE-amd64", FALSE), NoLinuxInfo, "amd64">>,
     <<Host("sunos", "solaris-2.11-sun4v.64bit", FALSE), NoLinuxInfo, "sun4v">>}

\* the arguments of boot() with sys.argv, sys.executable and os.environ
BootArguments ==
    {[pex |-> "app.pex", python |-> None, python_args |-> <<>>, args |-> <<>>,
      env |-> None, sys_argv |-> <<"app.pex", "--flag">>,
      sys_executable |-> "/usr/bin/python3",
      os_environ |-> <<<<"HOME", "/root">>, <<"PATH", "/bin">>>>],
     [pex |-> "/tmp/cowsay.pex", python |-> Some("/opt/py/bin/python"),
      python_args |-> <<"-O">>, args |-> <<"-t", "Moo!">>,
      env |-> Some(<<<<"PEX_VERBOSE", "1">>>>), sys_argv |-> <<"launch.py">>,
      sys_executable |-> "/usr/bin/python3",
      os_environ |-> <<<<"HOME", "/root">>, <<"PATH", "/bin">>>>],
     [pex |-> "app.pex", python |-> Some(""), python_args |-> <<>>, args |-> <<"run">>,
      env |-> Some(<<>>), sys_argv |-> <<"launch.py">>,
      sys_executable |-> "/usr/bin/python3",
      os_environ |-> <<<<"PATH", "/bin">>>>]}

InitBoot ==
    /\ Start
    /\ ToStdout
    /\ boot_pc = "import"
    /\ CURRENT_OS = None
    /\ CURRENT_ARCH = None
    /\ raised = None
    /\ native_call = None
    /\ exit_code = None
    /\ cleanup = NoCleanup
    /\ sys = Sys("cpython", <<3, 9>>)
    /\ config_vars = ConfigVars(Some(0), None, Some(".cpython-39-x86_64-linux-gnu.so"))
    /\ \E e \in BootEnvironments, a \in BootArguments, n \in {0, 1, 75},
          found \in BOOLEAN :
          /\ host = e[1]
          /\ linux_info = e[2]
          /\ boot_request =
                 [machine |-> e[3], pex |-> a.pex, python |-> a.python,
                  python_args |-> a.python_args, args |-> a.args, env |-> a.env,
                  sys_argv |-> a.sys_argv, sys_executable |-> a.sys_executable,
                  os_environ |-> a.os_environ, native_result |-> n,
                  library_found |-> found, write_ok |-> TRUE, load_ok |-> TRUE,
                  rmtree_ok |-> TRUE, module |-> "src/src/python/pexcz",
                  py_version |-> <<3, 9>>]

NextBoot == ImportPexcz \/ Boot \/ Next

SpecBoot == InitBoot /\ [][NextBoot]_vars

(***************************************************************************)
(* _load_pexcz in both copies of the launcher, under the Python versions   *)
(* each copy runs on, with every way its try block ends and a temporary    *)
(* directory that can and cannot be removed.                               *)
(***************************************************************************)
\* the copy of the launcher and the Python version that imports it
LauncherCopies ==
    ({"src/src/python/pexcz"} \X {<<2, 7>>, <<3, 9>>, <<3, 11>>, <<3, 12>>, <<3, 13>>})
    \cup ({"python/pexcz"} \X {<<3, 9>>, <<3, 11>>, <<3, 12>>, <<3, 13>>})

InitLoad ==
    /\ Start
    /\ ToStdout
    /\ boot_pc = "import"
    /\ CURRENT_OS = None
    /\ CURRENT_ARCH = None
    /\ raised = None
    /\ native_call = None
    /\ exit_code = None
    /\ cleanup = NoCleanup
    /\ sys = Sys("cpython", <<3, 9>>)
    /\ config_vars = ConfigVars(Some(0), None, Some(".cpython-39-x86_64-linux-gnu.so"))
    /\ \E e \in BootEnvironments, a \in BootArguments, c \in LauncherCopies,
          found \in BOOLEAN, write_ok \in BOOLEAN, load_ok \in BOOLEAN,
          rmtree_ok \in BOOLEAN :
          /\ a.python = None
          /\ host = e[1]
          /\ linux_info = e[2]
          /\ boot_request =
                 [machine |-> e[3], pex |-> a.pex, python |-> a.python,
                  python_args |-> a.python_args, args |-> a.args, env |-> a.env,
                  sys_argv |-> a.sys_argv, sys_executable |-> a.sys_executable,
                  os_environ |-> a.os_environ, native_result |-> 0,
                  library_found |-> found, write_ok |-> write_ok, load_ok |-> load_ok,
                  rmtree_ok |-> rmtree_ok, module |-> c[1], py_version |-> c[2]]

NextLoad == ImportPexcz \/ Boot

SpecLoad == InitLoad /\ [][NextLoad]_vars

(***************************************************************************)
(* iOS and Android: every release and API level up to the bounds, under    *)
(* CPython 3.13, the first version that runs on them.                      *)
(***************************************************************************)
\* platform.ios_ver().release: major.minor, major.minor.patch and a bare major
IosReleases ==
    {Str(M) \o "." \o Str(m) : M \in 10..MaxIosMajor, m \in 0..MaxIosMinor}
    \cup {Str(M) \o "." \o Str(m) \o ".1" : M \in 11..13, m \in {0, 4}}
    \cup {Str(M) : M \in 11..12}

InitMobile ==
    /\ Start
    /\ NoLauncher
    /\ ToStdout
    /\ \E multiarch \in {"arm64-iphoneos", "arm64-iphonesimulator", "x86_64-iphonesimulator"} :
          sys = [Sys("cpython", <<3, 13>>) EXCEPT !.multiarch = multiarch]
    /\ config_vars = ConfigVars(Some(0), None, Some(".cpython-313-iphoneos.so"))
    /\ host \in {IosHost(r) : r \in IosReleases}
                \cup {[AndroidHost(l) EXCEPT !.get_platform = p] :
                         l \in 14..MaxApiLevel,
                         p \in {"android-21-arm64_v8a", "android-24-x86_64",
                                 "android-21-armeabi_v7a"}}
    /\ linux_info = NoLinuxInfo

SpecMobile == InitMobile /\ [][Next]_vars

(***************************************************************************)
(* Mac OS X 10.0 to 10.MaxMacMinor on every architecture it ran on, with   *)
(* 64-bit and 32-bit interpreters.                                         *)
(***************************************************************************)
InitMac ==
    /\ Start
    /\ NoLauncher
    /\ ToStdout
    /\ sys = Sys("cpython", <<3, 9>>)
    /\ config_vars = ConfigVars(Some(0), None, Some(".cpython-39-darwin.so"))
    /\ \E minor \in 0..MaxMacMinor, patch \in {"", ".7"},
          cpu_arch \in {"x86_64", "i386", "ppc64", "ppc", "arm64"}, is32 \in BOOLEAN :
          host = MacHost("10." \o Str(minor) \o patch, cpu_arch, is32, None)
    /\ linux_info = NoLinuxInfo

SpecMac == InitMac /\ [][Next]_vars

(***************************************************************************)
(* --linux-info documents with both records, one of them, an empty          *)
(* manylinux record and none.                                              *)
(***************************************************************************)
InitLibc ==
    /\ Start
    /\ NoLauncher
    /\ ToStdout
    /\ sys = Sys("cpython", <<3, 2>>)
    /\ config_vars = ConfigVars(Some(0), None, Some(".cpython-32m.so"))
    /\ \E li \in LinuxInterpreters : host = Host("linux", li[1], li[2])
    /\ \E musllinux \in {None} \cup {Some(v) : v \in MuslVersions} :
          \/ \E g \in {<<2, 17>>, <<2, 28>>, <<3, 1>>}, armhf \in BOOLEAN, i686 \in BOOLEAN :
                linux_info = [Manylinux(Some(g), armhf, i686) EXCEPT !.musllinux = musllinux]
          \/ \E manylinux \in {None, Some(<<>>)} :
                linux_info = [manylinux |-> manylinux, musllinux |-> musllinux]

SpecLibc == InitLibc /\ [][Next]_vars

(***************************************************************************)
(* The claims.                                                             *)
(***************************************************************************)
Resolved == pc = "done"

ElementsOf(seq) == {seq[i] : i \in 1..Len(seq)}

\* C1: supported_tags holds each rendered string at most once, and the tag
\* sequence each triple at most once, for every interpreter and platform list.
C1_NoDuplicateTags ==
    Resolved =>
        /\ Cardinality(ElementsOf(supported_tags)) = Len(supported_tags)
        /\ Cardinality(ElementsOf(tags)) = Len(tags)

\* the fallback tag py<major>-none-any of the running interpreter
PyMajorNoneAny == "py" \o Str(sys.version_info[1]) \o "-none-any"

\* C2 as stated: the last element of every resolved tag list is py<major>-none-any.
C2_LastIsPyMajorNoneAny ==
    Resolved => supported_tags[Len(supported_tags)] = PyMajorNoneAny

\* C2 as amended: py<major>-none-any is in every resolved tag list, <minor>
\* places before the end; the last element is py<major>0-none-any when
\* minor >= 1 and py<major>-none-any only when minor = 0.
C2_LastIsOldestPyVersion ==
    Resolved =>
        LET major == sys.version_info[1]
            minor == sys.version_info[2]
            n == Len(supported_tags)
        IN /\ n > minor
           /\ supported_tags[n - minor] = PyMajorNoneAny
           /\ tags[n - minor] = <<"py" \o Str(major), "none", "any">>
           /\ supported_tags[n] =
                  IF minor = 0 THEN PyMajorNoneAny
                  ELSE "py" \o Str(major) \o "0-none-any"

\* a resolved CPython 3.9 on Linux, whose list ends py30-none-any after py3-none-any
C2_Witness ==
    /\ Resolved
    /\ host.OS = "linux"
    /\ sys.version_info = <<3, 9>>
    /\ supported_tags[Len(supported_tags)] = "py30-none-any"
    /\ supported_tags[Len(supported_tags) - 9] = "py3-none-any"

\* the platform list the musllinux facts ask for: per alias every minor from
\* the musl minor down to 0, then the bare linux tags
MusllinuxPerAlias(version, arches) ==
    LET n == version[2] + 1
    IN /\ Len(platforms) = Len(arches) * n + Len(arches)
       /\ \A a \in 1..Len(arches), k \in 0..version[2] :
             platforms[(a - 1) * n + (version[2] - k) + 1] =
                 "musllinux_" \o Str(version[1]) \o "_" \o Str(k) \o "_" \o arches[a]
       /\ \A a \in 1..Len(arches) :
             platforms[Len(arches) * n + a] = "linux_" \o arches[a]

\* C3: on musllinux every architecture alias gets musllinux_<major>_<m>_<arch>
\* for every m from the musl minor down to 0, followed by the bare linux tags.
C3_MusllinuxEveryAlias ==
    (pc = "platforms" /\ host.OS = "linux" /\ linux_info.musllinux # None
     /\ ~TruthyDict(linux_info.manylinux))
    => MusllinuxPerAlias(linux_info.musllinux[1],
                         linux_arches(normalize_string(host.get_platform)))

\* a manylinux platform tag read back: its glibc version and its architecture
IsManylinux(tag) == StartsWith(tag, "manylinux")

IsNumericManylinux(tag) == StartsWith(tag, "manylinux_")

IsLegacyManylinux(tag) == IsManylinux(tag) /\ ~IsNumericManylinux(tag)

LegacyManylinuxVersion(name) ==
    CASE name = "manylinux2014" -> <<2, 17>>
      [] name = "manylinux2010" -> <<2, 12>>
      [] name = "manylinux1" -> <<2, 5>>

ManylinuxVersion(tag) ==
    IF IsNumericManylinux(tag)
    THEN <<StrToInt(Split(tag, "_", 3)[2]), StrToInt(Split(tag, "_", 3)[3])>>
    ELSE LegacyManylinuxVersion(Split(tag, "_", 1)[1])

ManylinuxArch(tag) ==
    IF IsNumericManylinux(tag) THEN Split(tag, "_", 3)[4] ELSE Split(tag, "_", 1)[2]

\* two neighbours of the platform list that are manylinux tags of one architecture
AdjacentManylinux(i) ==
    /\ IsManylinux(platforms[i])
    /\ IsManylinux(platforms[i + 1])
    /\ ManylinuxArch(platforms[i]) = ManylinuxArch(platforms[i + 1])

LinuxEnumerated == pc = "platforms" /\ host.OS = "linux"

\* the facts of the running resolution
IsManylinuxHost == TruthyDict(linux_info.manylinux)

CurrentGlibc == linux_glibc_version(linux_info.manylinux[1])

Aliases == linux_arches(normalize_string(host.get_platform))

\* C4 as stated: of two adjacent manylinux tags of one architecture the later
\* one's glibc minor is never greater than the earlier one's.
C4_MinorNeverIncreases ==
    LinuxEnumerated =>
        \A i \in 1..(Len(platforms) - 1) :
            AdjacentManylinux(i) =>
                ManylinuxVersion(platforms[i + 1])[2] <= ManylinuxVersion(platforms[i])[2]

\* C4 as amended: of two adjacent manylinux tags of one architecture the later
\* one's glibc version (major, minor) is never greater than the earlier one's;
\* the minor alone does not increase while the major stays the same.
C4_VersionNeverIncreases ==
    LinuxEnumerated =>
        \A i \in 1..(Len(platforms) - 1) :
            AdjacentManylinux(i) =>
                LET earlier == ManylinuxVersion(platforms[i])
                    later == ManylinuxVersion(platforms[i + 1])
                IN /\ ~TupleLt(earlier, later)
                   /\ earlier[1] = later[1] => later[2] <= earlier[2]

\* glibc 3.x on x86_64: manylinux_3_0 is followed by the ceiling of major 2
C4_Witness ==
    /\ LinuxEnumerated
    /\ IsManylinuxHost
    /\ CurrentGlibc[1] = 3
    /\ \E i \in 1..(Len(platforms) - 1) :
          /\ platforms[i] = "manylinux_3_0_x86_64"
          /\ platforms[i + 1] = "manylinux_2_50_x86_64"

\* the oldest supported glibc baseline of an alias list
Baseline(arches) ==
    IF \E i \in 1..Len(arches) : arches[i] \in {"x86_64", "i686"}
    THEN <<2, 4>> ELSE <<2, 16>>

\* C5: no manylinux tag, numeric or legacy, denotes a glibc version at or
\* older than the baseline ((2,4) with x86_64 or i686 among the aliases,
\* (2,16) otherwise); with glibc (2,30) and the default compatibility check
\* x86_64 still gets manylinux_2_5_x86_64 and manylinux1_x86_64.
C5_NothingAtOrBelowBaseline ==
    LinuxEnumerated =>
        /\ \A i \in 1..Len(platforms) :
              IsManylinux(platforms[i]) =>
                  TupleLt(Baseline(Aliases), ManylinuxVersion(platforms[i]))
        /\ (IsManylinuxHost /\ CurrentGlibc = <<2, 30>>
            /\ Aliases = <<"x86_64">> /\ ~host.manylinux_module.present)
           => (Contains(platforms, "manylinux_2_5_x86_64")
               /\ Contains(platforms, "manylinux1_x86_64"))

\* glibc (2,30) on aarch64: manylinux_2_17_aarch64 is the oldest tag emitted
C5_Witness ==
    /\ LinuxEnumerated
    /\ IsManylinuxHost
    /\ CurrentGlibc = <<2, 30>>
    /\ Aliases = <<"aarch64">>
    /\ Contains(platforms, "manylinux_2_17_aarch64")
    /\ ~Contains(platforms, "manylinux_2_16_aarch64")

\* the numeric tag of a legacy-named tag, and the legacy name of a numeric tag
NumericOf(tag) ==
    "manylinux_" \o Str(ManylinuxVersion(tag)[1]) \o "_" \o Str(ManylinuxVersion(tag)[2])
    \o "_" \o ManylinuxArch(tag)

LegacyOf(tag) ==
    LEGACY_MANYLINUX_MAP[ManylinuxVersion(tag)] \o "_" \o ManylinuxArch(tag)

\* C6: a legacy-named tag is in the list if and only if the numeric tag of
\* the same version and architecture is, and is then the element right after
\* it; glibc (2,17) on x86_64 has manylinux_2_17_x86_64, then manylinux2014_x86_64.
C6_LegacyFollowsNumeric ==
    LinuxEnumerated =>
        /\ \A i \in 1..Len(platforms) :
              /\ IsLegacyManylinux(platforms[i]) =>
                    (i > 1 /\ platforms[i - 1] = NumericOf(platforms[i]))
              /\ (IsNumericManylinux(platforms[i])
                  /\ ManylinuxVersion(platforms[i]) \in DOMAIN LEGACY_MANYLINUX_MAP) =>
                    (i < Len(platforms) /\ platforms[i + 1] = LegacyOf(platforms[i]))
        /\ (IsManylinuxHost /\ CurrentGlibc = <<2, 17>>
            /\ Aliases = <<"x86_64">> /\ ~host.manylinux_module.present)
           => SubSeq(platforms, 1, 2) = <<"manylinux_2_17_x86_64", "manylinux2014_x86_64">>

\* glibc (2,17) on x86_64: the numeric tag, then manylinux2014
C6_Witness ==
    /\ LinuxEnumerated
    /\ IsManylinuxHost
    /\ CurrentGlibc = <<2, 17>>
    /\ platforms[1] = "manylinux_2_17_x86_64"
    /\ platforms[2] = "manylinux2014_x86_64"

\* the running interpreter is CPython and its ABI list and tags are assembled
CPythonAssembled == pc = "tags" /\ sys.implementation_name = "cpython"

IsDebugBuild ==
    \/ TruthyInt(config_vars.Py_DEBUG)
    \/ (config_vars.Py_DEBUG = None /\ (sys.has_refcount \/ sys.has_ext))

\* cp<MAJORMINOR> and cp<MAJORMINOR>[t] of the running interpreter
CpVersion == "cp" \o Str(sys.version_info[1]) \o Str(sys.version_info[2])

CpThreaded == CpVersion \o threading_flag(sys.version_info)

AtLeast38 == ~SeqLt(sys.version_info, <<3, 8>>)

\* C7 as stated: a CPython debug build of version >= (3,8) gets the single
\* ABI token cp<MAJORMINOR>[t]d and no non-debug token.
C7_OnlyDebugTokenFrom38 ==
    (CPythonAssembled /\ IsDebugBuild /\ AtLeast38) => abis = <<CpThreaded \o "d">>

\* C7 as amended: a CPython debug build of version >= (3,8) gets two ABI
\* tokens, the debug token cp<MAJORMINOR>[t]d first and the non-debug token
\* cp<MAJORMINOR>[t] second.
C7_DebugThenPlainFrom38 ==
    (CPythonAssembled /\ IsDebugBuild /\ AtLeast38)
    => abis = <<CpThreaded \o "d", CpThreaded>>

\* a free-threaded debug build of CPython 3.13
C7_Witness ==
    /\ CPythonAssembled
    /\ IsDebugBuild
    /\ sys.version_info = <<3, 13>>
    /\ abis = <<"cp313td", "cp313t">>

\* the flags after cp<digits> of an ABI token
AbiFlags(abi) == SubSeq(abi, 3 + LeadingDigits(SubSeq(abi, 3, Len(abi))), Len(abi))

\* C8 as stated: a CPython debug build of version < (3,8) gets two ABI tokens,
\* the non-debug token first and the primary debug token second.
C8_PlainThenDebugBefore38 ==
    (CPythonAssembled /\ IsDebugBuild /\ ~AtLeast38)
    => /\ Len(abis) = 2
       /\ ~InStr("d", AbiFlags(abis[1]))
       /\ abis[2] = CpVersion \o "d" \o pymalloc_flag(sys.version_info)
                    \o ucs4_flag(sys.version_info)

\* C8 as amended: a CPython debug build of version < (3,8) gets exactly one
\* ABI token, the primary debug token cp<MAJORMINOR>d[m][u], and no non-debug
\* token.
C8_OnlyDebugTokenBefore38 ==
    (CPythonAssembled /\ IsDebugBuild /\ ~AtLeast38)
    => /\ abis = <<CpVersion \o "d" \o pymalloc_flag(sys.version_info)
                   \o ucs4_flag(sys.version_info)>>
       /\ InStr("d", AbiFlags(abis[1]))

\* a pymalloc debug build of CPython 3.7
C8_Witness ==
    /\ CPythonAssembled
    /\ IsDebugBuild
    /\ sys.version_info = <<3, 7>>
    /\ abis = <<"cp37dm">>

\* the running CPython is a threaded (GIL-disabled) build
IsThreadedBuild ==
    ~SeqLt(sys.version_info, <<3, 13>>) /\ TruthyInt(config_vars.Py_GIL_DISABLED)

Abi3Eligible == ~SeqLt(sys.version_info, <<3, 2>>) /\ ~IsThreadedBuild

CpMinor(k) == "cp" \o Str(sys.version_info[1]) \o Str(k)

\* C9: CPython (M, n) gets abi3 tags if and only if (M, n) >= (3,2) and the
\* build is not threaded; then cp<M><k>-abi3-<p> is in the list for every
\* platform p and every k from n down to 2, and no abi3 tag has a minor
\* below 2, a minor above n or another major.
C9_Abi3Eligibility ==
    CPythonAssembled =>
        LET all == ElementsOf(tags)
            minors == 2..sys.version_info[2]
        IN /\ ~Abi3Eligible => \A t \in all : t[2] # "abi3"
           /\ Abi3Eligible =>
                 \A i \in 1..Len(platforms), k \in minors :
                     <<CpMinor(k), "abi3", platforms[i]>> \in all
           /\ \A t \in all :
                 t[2] = "abi3" =>
                     /\ \E k \in minors : t[1] = CpMinor(k)
                     /\ Contains(platforms, t[3])

\* CPython 3.11, not threaded, on glibc (2,28) x86_64: cp311 down to cp32
C9_Witness ==
    /\ CPythonAssembled
    /\ sys.version_info = <<3, 11>>
    /\ ~IsThreadedBuild
    /\ \A k \in 2..11 : <<CpMinor(k), "abi3", "manylinux_2_28_x86_64">> \in ElementsOf(tags)
    /\ \A t \in ElementsOf(tags) : t[1] = "cp27" => t[2] # "abi3"

\* the tier of a tag of a CPython tag sequence
Tier(t) ==
    IF t[1] = CpVersion /\ t[2] \notin {"abi3", "none"} THEN 1
    ELSE IF t[1] = CpVersion /\ t[2] = "abi3" THEN 2
    ELSE IF t[1] = CpVersion /\ t[2] = "none" /\ t[3] # "any" THEN 3
    ELSE IF StartsWith(t[1], "cp") /\ t[2] = "abi3" THEN 4
    ELSE 5

\* the i-th element of abi_list crossed with the platform list
CrossAt(interpreter, abi_list, i) ==
    <<interpreter, abi_list[((i - 1) \div Len(platforms)) + 1],
      platforms[((i - 1) % Len(platforms)) + 1]>>

\* C10: a CPython tag sequence is laid out in tiers: every specific ABI token
\* crossed with every platform tag, then abi3 (if eligible) with every
\* platform, then none with every platform, then the historical abi3 tags,
\* then the universal fallbacks; no tag of a later tier precedes a tag of an
\* earlier one, and the first tag is <cpXY>-<first ABI token>-<first platform>.
C10_TierOrder ==
    CPythonAssembled =>
        LET P == Len(platforms)
            A == Len(abis)
            specific == A * P
            stable == IF Abi3Eligible THEN P ELSE 0
        IN /\ \A i \in 1..(Len(tags) - 1) : Tier(tags[i]) <= Tier(tags[i + 1])
           /\ A >= 1
           /\ Len(tags) >= specific + stable + P
           /\ \A i \in 1..specific : tags[i] = CrossAt(CpVersion, abis, i)
           /\ \A i \in 1..stable : tags[specific + i] = <<CpVersion, "abi3", platforms[i]>>
           /\ \A i \in 1..P :
                 tags[specific + stable + i] = <<CpVersion, "none", platforms[i]>>
           /\ \A i \in (specific + stable + P + 1)..Len(tags) : Tier(tags[i]) >= 4
           /\ P > 0 => tags[1] = <<CpVersion, abis[1], platforms[1]>>
           /\ (sys.version_info = <<3, 9>> /\ ~IsDebugBuild
               /\ P > 0 /\ platforms[1] = "manylinux_2_28_x86_64")
              => Join("-", tags[1]) = "cp39-cp39-manylinux_2_28_x86_64"

\* CPython 3.9, not a debug build, on glibc (2,28) x86_64
C10_Witness ==
    /\ Resolved
    /\ sys.implementation_name = "cpython"
    /\ sys.version_info = <<3, 9>>
    /\ ~IsDebugBuild
    /\ supported_tags[1] = "cp39-cp39-manylinux_2_28_x86_64"
    /\ Contains(supported_tags, "cp39-cp39-manylinux_2_17_x86_64")
    /\ Contains(supported_tags, "cp39-cp39-manylinux2014_x86_64")
    /\ Contains(supported_tags, "cp39-abi3-manylinux_2_28_x86_64")
    /\ Contains(supported_tags, "cp38-abi3-manylinux_2_28_x86_64")

\* the resolution has assembled its tag triples
Assembled == pc \in {"tags", "done"}

\* py<major><minor>, py<major>, py<major><minor-1>, ..., py<major>0
FallbackVersions ==
    LET major == Str(sys.version_info[1])
        minor == sys.version_info[2]
    IN <<"py" \o major \o Str(minor), "py" \o major>>
       \o [i \in 1..minor |-> "py" \o major \o Str(minor - i)]

\* pp3 for PyPy 3, cp<version> for CPython, no identifier otherwise
ShortIdentifier ==
    IF sys.implementation_name = "pypy" /\ sys.version_info[1] = 3 THEN <<"pp3">>
    ELSE IF sys.implementation_name = "cpython"
    THEN <<"cp" \o Str(sys.version_info[1]) \o Str(sys.version_info[2])>>
    ELSE <<>>

\* C11: the tag list ends with the universal fallbacks in this order: every
\* compatible-version string (py<major><minor>, py<major>, py<major><minor-1>,
\* ..., py<major>0) crossed with none and every platform tag; then the one tag
\* (shortInterpreter, none, any) when a short interpreter identifier exists
\* and no tag otherwise; then every compatible-version string with (none, any).
\* Every tag before them is an interpreter-specific tag on a platform tag.
C11_FallbackOrder ==
    Assembled =>
        LET V == FallbackVersions
            P == Len(platforms)
            n == Len(V)
            k == Len(ShortIdentifier)
            start == Len(tags) - (n * P + k + n)
        IN /\ start >= 0
           /\ \A j \in 1..(n * P) :
                 tags[start + j] =
                     <<V[((j - 1) \div P) + 1], "none", platforms[((j - 1) % P) + 1]>>
           /\ k = 1 => tags[start + n * P + 1] = <<ShortIdentifier[1], "none", "any">>
           /\ \A j \in 1..n : tags[start + n * P + k + j] = <<V[j], "none", "any">>
           /\ \A i \in 1..start :
                 /\ tags[i][3] # "any"
                 /\ StartsWith(tags[i][1], interpreter_name[1])
           /\ Cardinality({i \in 1..Len(tags) : tags[i][3] = "any"}) = n + k

\* PyPy 3.9 on x86_64 glibc (2,17): pp3-none-any between the platform
\* fallbacks and py39-none-any
C11_Witness ==
    /\ Resolved
    /\ sys.implementation_name = "pypy"
    /\ sys.version_info = <<3, 9>>
    /\ Len(platforms) > 0
    /\ platforms[1] = "manylinux_2_17_x86_64"
    /\ Len(tags) > 12
    /\ tags[Len(tags) - 12] = <<"py30", "none", "linux_x86_64">>
    /\ tags[Len(tags) - 11] = <<"pp3", "none", "any">>
    /\ tags[Len(tags) - 10] = <<"py39", "none", "any">>
    /\ tags[Len(tags) - 9] = <<"py3", "none", "any">>
    /\ tags[Len(tags) - 8] = <<"py38", "none", "any">>
    /\ tags[Len(tags)] = <<"py30", "none", "any">>

\* C12: for fixed inputs, a second resolution, in the same process or in a
\* new one, yields the supported_tags array of the first: the same elements
\* in the same order.
C12_SecondResolutionIdentical ==
    (Resolved /\ previous # None) => supported_tags = previous[1]

\* a second resolution in the same process on glibc (3,1): the first one left
\* the ceiling of glibc major 2 in _LAST_GLIBC_MINOR
C12_Witness ==
    /\ Resolved
    /\ previous # None
    /\ linux_info.manylinux # None
    /\ linux_info.manylinux[1].glibc = Some(<<3, 1>>)
    /\ DOMAIN LAST_GLIBC_MINOR = {2}
    /\ Len(supported_tags) > 0
    /\ supported_tags[1] = "cp32-cp32mu-manylinux_3_1_x86_64"
    /\ Contains(supported_tags, "cp32-cp32mu-manylinux_2_50_x86_64")

\* the reported macOS version strings that parse to (10,16)
ReportedIs1016 ==
    host.OS = "darwin" /\ host.mac_ver.version_str \in {"10.16", "10.16.1"}

\* the (major, minor) a re-probe output stands for
ReprobedVersion ==
    CASE host.mac_reprobe = Some("12.6\n") -> <<12, 6>>
      [] host.mac_reprobe = Some("11.2.3\n") -> <<11, 2>>
      [] host.mac_reprobe = Some("10.16\n") -> <<10, 16>>

\* the first platform tag of the enumeration of a macOS version
FirstMacTag(version, cpu_arch) ==
    "macosx_" \o Str(version[1]) \o "_"
    \o (IF version[1] >= 11 THEN "0" ELSE Str(version[2])) \o "_" \o cpu_arch

\* C13: a resolution starts the macOS version re-probe subprocess exactly
\* once when the reported macOS version parses to (10,16) and starts no
\* subprocess at all otherwise (another macOS version, another OS); the
\* version enumerated is then the re-probed one.
C13_ReprobeExactlyOnce ==
    pc # "start" =>
        /\ Len(subprocesses) = IF ReportedIs1016 THEN 1 ELSE 0
        /\ \A i \in 1..Len(subprocesses) :
              /\ subprocesses[i].env = <<"SYSTEM_VERSION_COMPAT=0">>
              /\ subprocesses[i].args[4] = "import platform; print(platform.mac_ver()[0])"
        /\ (ReportedIs1016 /\ pc # "failed") =>
              /\ host.mac_reprobe \in {Some("12.6\n"), Some("11.2.3\n"), Some("10.16\n")}
              /\ platforms[1] = FirstMacTag(ReprobedVersion, host.mac_ver.cpu_arch)

\* macOS reporting 10.16 on arm64 whose re-probe prints 12.6
C13_Witness ==
    /\ Resolved
    /\ host.OS = "darwin"
    /\ host.mac_ver.version_str = "10.16"
    /\ host.mac_reprobe = Some("12.6\n")
    /\ Len(subprocesses) = 1
    /\ platforms[1] = "macosx_12_0_arm64"
    /\ ~Contains(platforms, "macosx_10_16_arm64")

\* the interpreter takes the generic (non-CPython) ABI path
GenericInterpreter == sys.implementation_name # "cpython"

\* the configured suffix is absent or does not start with "."
SuffixMalformed ==
    \/ config_vars.EXT_SUFFIX = None
    \/ SubSeq(config_vars.EXT_SUFFIX[1], 1, 1) # "."

\* the number of dot-delimited segments of a string
RECURSIVE DotSegments(_)
DotSegments(s) ==
    IF s = "" THEN 1
    ELSE (IF Head(s) = "." THEN 1 ELSE 0) + DotSegments(Tail(s))

SuffixShort ==
    config_vars.EXT_SUFFIX # None /\ DotSegments(config_vars.EXT_SUFFIX[1]) < 3

\* the tag assembly has been attempted
AssemblyAttempted == pc \in {"tags", "done"} \/ (pc = "failed" /\ platforms # <<>>)

\* C14 as stated: deriving the generic ABI fails whenever the suffix is
\* absent, does not start with "." or has fewer than 3 dot-delimited segments.
C14_ShortSuffixFatal ==
    (GenericInterpreter /\ AssemblyAttempted /\ (SuffixMalformed \/ SuffixShort))
    => pc = "failed"

\* C14 as the code has it: deriving the generic ABI fails, and no tag
\* sequence is produced, whenever the suffix is absent or does not start with
\* "."; a suffix that starts with "." and has fewer than 3 dot-delimited
\* segments (".pyd") is no error: the ABI list is then the CPython ABI list of
\* the running version.
C14_MalformedSuffixFatal ==
    (GenericInterpreter /\ AssemblyAttempted) =>
        /\ SuffixMalformed =>
              /\ pc = "failed"
              /\ tags = <<>>
              /\ supported_tags = <<>>
              /\ stdout = None
        /\ (config_vars.EXT_SUFFIX = Some(".pyd") /\ sys.implementation_name = "pypy"
            /\ sys.version_info = <<3, 9>>)
           => /\ pc # "failed"
              /\ abis = <<"cp39", "none">>

\* PyPy whose EXT_SUFFIX has no leading ".", past a non-empty platform list
C14_Witness ==
    /\ pc = "failed"
    /\ sys.implementation_name = "pypy"
    /\ config_vars.EXT_SUFFIX = Some("pypy39-pp73.so")
    /\ Len(platforms) > 0
    /\ tags = <<>>

\* the architecture aliases of the Linux interpreters
ExpectedAliases ==
    CASE host.get_platform = "linux-x86_64" -> IF host.is32 THEN <<"i686">> ELSE <<"x86_64">>
      [] host.get_platform = "linux-aarch64" ->
            IF host.is32 THEN <<"armv8l", "armv7l">> ELSE <<"aarch64">>
      [] host.get_platform = "linux-i686" -> <<"i686">>
      [] host.get_platform = "linux-armv7l" -> <<"armv7l">>
      [] host.get_platform = "linux-ppc64le" -> <<"ppc64le">>
      [] host.get_platform = "linux-mips64" -> <<"mips64">>

\* the glibc version strings no (major, minor) can be read from
GlibcUnparsable ==
    host.glibc_version_string \in {None, Some("unknown"), Some("2."), Some(""), Some("glibc 2.17")}

\* the current glibc version is the sentinel (-1,-1): handed in as such, or
\* read from a host without a parsable glibc version string
SentinelGlibc ==
    /\ host.OS = "linux"
    /\ IsManylinuxHost
    /\ \/ linux_info.manylinux[1].glibc = Some(<<-1, -1>>)
       \/ linux_info.manylinux[1].glibc = None /\ GlibcUnparsable

\* C15: when the glibc version string cannot be parsed, or no glibc is found,
\* the current glibc version is the sentinel (-1,-1); with it the resolution
\* still completes and the Linux platform list is exactly the bare
\* linux_<arch> tags of the aliases, with no manylinux tag, numeric or legacy.
\* A version string with junk after the minor ("2.20-2014.11") is parsed.
C15_SentinelOnlyBareLinux ==
    /\ (SentinelGlibc /\ pc # "start") =>
          /\ pc # "failed"
          /\ platforms = [i \in 1..Len(ExpectedAliases) |-> "linux_" \o ExpectedAliases[i]]
          /\ \A i \in 1..Len(platforms) : ~StartsWith(platforms[i], "manylinux")
    /\ (host.OS = "linux" /\ IsManylinuxHost /\ linux_info.manylinux[1].glibc = None
        /\ host.glibc_version_string = Some("2.20-2014.11")
        /\ ExpectedAliases = <<"x86_64">> /\ pc # "start")
       => platforms[1] = "manylinux_2_20_x86_64"

\* a 32-bit interpreter on aarch64 whose glibc version string is "unknown"
C15_Witness ==
    /\ Resolved
    /\ host.OS = "linux"
    /\ IsManylinuxHost
    /\ linux_info.manylinux[1].glibc = None
    /\ linux_info.manylinux[1].armhf
    /\ host.glibc_version_string = Some("unknown")
    /\ platforms = <<"linux_armv8l", "linux_armv7l">>
    /\ supported_tags[1] = "cp32-cp32mu-linux_armv8l"

\* C16: a resolution that hits a fatal condition leaves no partial result:
\* the step that fails writes nothing to sys.stdout and leaves the file at the
\* output path as it was, neither created nor truncated.
C16_FatalLeavesNoOutput ==
    [][(pc' = "failed") => (file' = file /\ stdout' = stdout)]_vars

\* the four marshalled arguments in the order of the native boot function
ContractCall(r) ==
    <<to_cstr(boot_python(r)), to_cstr(r.pex), boot_environ(r), boot_argv(r)>>

\* C17: once boot has handed over, the native function was called with the
\* executable path, the PEX path, the environment array and the argv array, in
\* this order, and the process exit code is what the native function returned.
C17_ContractOrder ==
    boot_pc = "exited" =>
        /\ native_call = Some(ContractCall(boot_request))
        /\ exit_code = Some(boot_request.native_result)

\* platform.system().lower() is none of the operating systems the launcher knows
UnsupportedOS == Lower(host.OS) \notin {"linux", "darwin", "windows"}

\* platform.machine().lower() is none of the machines the launcher knows
UnsupportedArch ==
    Lower(boot_request.machine) \notin
        {"aarch64", "arm64", "armv7l", "armv8l", "ppc64le", "amd64", "x86_64"}

\* the import of the launcher is over
Imported == boot_pc \in {"loaded", "failed", "exited"}

\* the launcher failed on the operating system, reporting its lower-cased name
FatalOS ==
    /\ boot_pc = "failed"
    /\ raised = Some("Unsupported OS: " \o Lower(host.OS))
    /\ CURRENT_OS = None
    /\ native_call = None

\* the launcher failed on the machine, reporting its lower-cased name
FatalArch ==
    /\ boot_pc = "failed"
    /\ raised = Some("Unsupported chip architecture: " \o Lower(boot_request.machine))
    /\ CURRENT_ARCH = None
    /\ native_call = None

\* C18 as stated: on an operating system or a machine that is not supported the
\* launcher fails with the offending value, and the resolver does not go on
\* to produce platforms or tags for this environment either.
C18_NoFallbackGuess ==
    (UnsupportedOS \/ UnsupportedArch) =>
        /\ Imported => (IF UnsupportedOS THEN FatalOS ELSE FatalArch)
        /\ pc \in {"start", "failed"}

\* C18 as amended: the launcher fails on an unsupported operating system and,
\* when the operating system is supported, on an unsupported machine, with the
\* lower-cased offending value and without calling the native function; the
\* resolver does not fail on either: for an operating system other than linux,
\* darwin, android and ios it yields one generic platform, and on linux it keeps
\* the unknown machine as the architecture of its tags.
C18_LauncherFatalResolverGeneric ==
    /\ (Imported /\ UnsupportedOS) => FatalOS
    /\ (Imported /\ ~UnsupportedOS /\ UnsupportedArch) => FatalArch
    /\ (Imported /\ ~UnsupportedOS /\ ~UnsupportedArch) =>
           /\ CURRENT_OS = Some(IF host.OS = "darwin" THEN "macos" ELSE host.OS)
           /\ CURRENT_ARCH # None
           /\ raised # None => boot_pc = "failed" /\ ~boot_request.library_found
    /\ (UnsupportedOS \/ UnsupportedArch) =>
           /\ pc # "failed"
           /\ (pc # "start" /\ host.OS \notin {"linux", "darwin", "android", "ios"}) =>
                  Len(platforms) = 1
           /\ (pc # "start" /\ host.OS = "linux") =>
                  platforms[Len(platforms)] = "linux_" \o Lower(boot_request.machine)

\* on FreeBSD the launcher has failed with "Unsupported OS: freebsd" and the
\* resolver has completed with the generic platform of the host
C18_Witness ==
    /\ host.OS = "freebsd"
    /\ FatalOS
    /\ raised = Some("Unsupported OS: freebsd")
    /\ Resolved
    /\ supported_tags[1] = "cp39-cp39-freebsd_14_0_RELEASE_amd64"

EndsWith(s, suffix) ==
    /\ Len(s) >= Len(suffix)
    /\ SubSeq(s, Len(s) - Len(suffix) + 1, Len(s)) = suffix

\* C19: on Linux, once the platforms are enumerated, the platform list ends
\* with one bare linux_<arch> tag per architecture alias in alias order
\* (x86_64 -> i686 and aarch64 -> armv8l on a 32-bit interpreter, armv8l ->
\* armv8l, armv7l), and every tag before them is a manylinux or musllinux tag
\* of one of the aliases.
C19_BareLinuxLast ==
    (host.OS = "linux" /\ pc \notin {"start", "failed"}) =>
        LET n == Len(platforms)
            k == Len(ExpectedAliases)
        IN /\ n >= k
           /\ \A i \in 1..k : platforms[n - k + i] = "linux_" \o ExpectedAliases[i]
           /\ \A i \in 1..(n - k) :
                 /\ IsManylinux(platforms[i]) \/ StartsWith(platforms[i], "musllinux_")
                 /\ \E j \in 1..k : EndsWith(platforms[i], "_" \o ExpectedAliases[j])

\* a 32-bit interpreter on aarch64 with glibc 2.17 and the hard-float ABI:
\* manylinux tags of armv8l and armv7l, then linux_armv8l and linux_armv7l
C19_Witness ==
    /\ Resolved
    /\ host.get_platform = "linux-aarch64"
    /\ host.is32
    /\ Len(platforms) > 2
    /\ platforms[1] = "manylinux_2_17_armv8l"
    /\ \E i \in 1..Len(platforms) : platforms[i] = "manylinux_2_17_armv7l"
    /\ platforms[Len(platforms) - 1] = "linux_armv8l"
    /\ platforms[Len(platforms)] = "linux_armv7l"

\* the macOS version the enumeration works with: the re-probed one when the
\* reported one is 10.16
EffectiveMacVersion ==
    CASE host.mac_ver.version_str = "11.0" -> <<11, 0>>
      [] host.mac_ver.version_str = "12.3.1" -> <<12, 3>>
      [] host.mac_ver.version_str = "10.15.7" -> <<10, 15>>
      [] ReportedIs1016 -> ReprobedVersion

\* the binary formats of the two architectures macOS 11 and later run on
MacFormatList(cpu_arch) ==
    IF cpu_arch = "x86_64"
    THEN <<"x86_64", "intel", "fat64", "fat32", "universal2", "universal">>
    ELSE <<cpu_arch, "universal2">>

MacosxTag(major, minor, format) ==
    "macosx_" \o Str(major) \o "_" \o Str(minor) \o "_" \o format

\* majors M..11 at minor 0, then minors 16..4 of major 10
ExpectedMacPlatforms(version, cpu_arch) ==
    LET formats == MacFormatList(cpu_arch)
        nf == Len(formats)
        legacy == IF cpu_arch = "x86_64" THEN formats ELSE <<"universal2">>
        nl == Len(legacy)
    IN [i \in 1..((version[1] - 10) * nf) |->
            MacosxTag(version[1] - ((i - 1) \div nf), 0, formats[((i - 1) % nf) + 1])]
       \o [i \in 1..(13 * nl) |->
              MacosxTag(10, 16 - ((i - 1) \div nl), legacy[((i - 1) % nl) + 1])]

\* the (major, minor) of a macosx tag
MacTagVersion(tag) ==
    LET parts == Split(tag, "_", -1)
    IN <<Int_(parts[2]), Int_(parts[3])>>

\* C20: for a macOS version (M, m) with M >= 11 the platform list is the tags
\* macosx_<major>_0_<format> for the majors M down to 11 and every format of
\* the architecture, then macosx_10_<minor>_<format> for the minors 16 down to
\* 4, with universal2 alone unless the architecture is x86_64; no tag of a
\* major >= 11 has a non-zero minor and (major, minor) never increases along
\* the list.
C20_MacOS11Platforms ==
    (host.OS = "darwin" /\ pc \notin {"start", "failed"} /\ EffectiveMacVersion[1] >= 11) =>
        /\ platforms = ExpectedMacPlatforms(EffectiveMacVersion, host.mac_ver.cpu_arch)
        /\ \A i \in 1..Len(platforms) :
              MacTagVersion(platforms[i])[1] >= 11 => MacTagVersion(platforms[i])[2] = 0
        /\ \A i \in 1..(Len(platforms) - 1) :
              SeqLe(MacTagVersion(platforms[i + 1]), MacTagVersion(platforms[i]))

\* macOS 12.3.1 on arm64: the majors 12 and 11, then universal2 for 10.16..10.4
C20_Witness ==
    /\ Resolved
    /\ host.OS = "darwin"
    /\ host.mac_ver.version_str = "12.3.1"
    /\ host.mac_ver.cpu_arch = "arm64"
    /\ Len(platforms) = 17
    /\ SubSeq(platforms, 1, 5) =
          <<"macosx_12_0_arm64", "macosx_12_0_universal2", "macosx_11_0_arm64",
            "macosx_11_0_universal2", "macosx_10_16_universal2">>
    /\ platforms[17] = "macosx_10_4_universal2"

\* the iOS platform list of version (M, m) under a multiarch identifier
ExpectedIosPlatforms(M, m, multiarch) ==
    [i \in 1..(1 + m + 10 * (M - 12)) |->
        IF i <= m + 1
        THEN "ios_" \o Str(M) \o "_" \o Str(m + 1 - i) \o "_" \o multiarch
        ELSE "ios_" \o Str(M - 1 - ((i - m - 2) \div 10)) \o "_"
             \o Str(9 - ((i - m - 2) % 10)) \o "_" \o multiarch]

\* sys.implementation._multiarch with its dashes turned into underscores
UnderscoredMultiarch ==
    CASE sys.multiarch = "arm64-iphoneos" -> "arm64_iphoneos"
      [] sys.multiarch = "arm64-iphonesimulator" -> "arm64_iphonesimulator"
      [] sys.multiarch = "x86_64-iphonesimulator" -> "x86_64_iphonesimulator"

\* the (major, minor) of an ios tag
IosTagVersion(tag) ==
    LET parts == Split(tag, "_", -1)
    IN <<Int_(parts[2]), Int_(parts[3])>>

\* C21: for an iOS version (M, m), once the platforms are enumerated: no
\* platform when M < 12; otherwise ios_M_m, then ios_M_k for k = m-1..0, then
\* ios_<major>_k for the majors M-1..12 and k = 9..0, each with the multiarch
\* identifier underscored; 1 + m + 10*(M-12) tags, strictly descending in
\* (major, minor).
C21_IosPlatforms ==
    \A M \in 10..(MaxIosMajor + 1), m \in 0..(MaxIosMinor + 1) :
        (host.OS = "ios" /\ pc # "start"
         /\ host.ios_release \in {Str(M) \o "." \o Str(m), Str(M) \o "." \o Str(m) \o ".1"}) =>
            /\ pc # "failed"
            /\ M < 12 => platforms = <<>>
            /\ M >= 12 =>
                  /\ platforms = ExpectedIosPlatforms(M, m, UnderscoredMultiarch)
                  /\ Len(platforms) = 1 + m + 10 * (M - 12)
                  /\ \A i \in 1..(Len(platforms) - 1) :
                        TupleLt(IosTagVersion(platforms[i + 1]), IosTagVersion(platforms[i]))

\* iOS 14.2 on the simulator: 23 platforms from ios_14_2 down to ios_12_0
C21_Witness ==
    /\ Resolved
    /\ host.OS = "ios"
    /\ host.ios_release = "14.2"
    /\ sys.multiarch = "arm64-iphonesimulator"
    /\ Len(platforms) = 23
    /\ SubSeq(platforms, 1, 4) =
          <<"ios_14_2_arm64_iphonesimulator", "ios_14_1_arm64_iphonesimulator",
            "ios_14_0_arm64_iphonesimulator", "ios_13_9_arm64_iphonesimulator">>
    /\ platforms[23] = "ios_12_0_arm64_iphonesimulator"

\* the ABI part of the sysconfig platform of the Android interpreters
AndroidAbi ==
    CASE host.get_platform = "android-21-arm64_v8a" -> "arm64_v8a"
      [] host.get_platform = "android-24-x86_64" -> "x86_64"
      [] host.get_platform = "android-21-armeabi_v7a" -> "armeabi_v7a"

\* C22: for an Android API level L, once the platforms are enumerated, the
\* platform list is android_<v>_<abi> for v = L down to 16: L - 15 tags when
\* L >= 16 and none when L < 16.
C22_AndroidPlatforms ==
    (host.OS = "android" /\ pc # "start") =>
        LET L == host.android_api_level
        IN /\ pc # "failed"
           /\ Len(platforms) = IF L >= 16 THEN L - 15 ELSE 0
           /\ \A i \in 1..Len(platforms) :
                 platforms[i] = "android_" \o Str(L + 1 - i) \o "_" \o AndroidAbi

\* API level 21 on arm64_v8a: android_21 down to android_16
C22_Witness ==
    /\ Resolved
    /\ host.OS = "android"
    /\ host.android_api_level = 21
    /\ platforms =
          <<"android_21_arm64_v8a", "android_20_arm64_v8a", "android_19_arm64_v8a",
            "android_18_arm64_v8a", "android_17_arm64_v8a", "android_16_arm64_v8a">>

\* C23: after any sequence of resolutions the module-level ceiling table
\* _LAST_GLIBC_MINOR equals its value before the first resolution of the
\* process, the defaultdict without any key.
C23_NoSharedStateChanged == DOMAIN LAST_GLIBC_MINOR = {}

\* the build has pymalloc on, or does not say
PymallocOnOrUnknown ==
    TruthyInt(config_vars.WITH_PYMALLOC) \/ config_vars.WITH_PYMALLOC = None

\* the build has UCS4 unicode: configured, or read from sys.maxunicode
UnicodeIsUcs4 ==
    \/ config_vars.Py_UNICODE_SIZE = Some(4)
    \/ (config_vars.Py_UNICODE_SIZE = None /\ sys.maxunicode_wide)

\* C24: the primary ABI token of an assembled CPython is cp<MAJORMINOR> with
\* the flags t, d, m, u in this order: t only for version >= (3,13) with the
\* GIL disabled, d for a debug build, m only for version < (3,8) with pymalloc
\* on or unknown, u only for version < (3,3) with UCS4 unicode; no token of a
\* version >= (3,8) has m or u and no token of a version < (3,13) has t.
C24_PrimaryAbiFlagOrder ==
    CPythonAssembled =>
        /\ abis[1] = CpVersion
                     \o (IF IsThreadedBuild THEN "t" ELSE "")
                     \o (IF IsDebugBuild THEN "d" ELSE "")
                     \o (IF ~AtLeast38 /\ PymallocOnOrUnknown THEN "m" ELSE "")
                     \o (IF SeqLt(sys.version_info, <<3, 3>>) /\ UnicodeIsUcs4
                         THEN "u" ELSE "")
        /\ AtLeast38 =>
              \A i \in 1..Len(abis) :
                  ~InStr("m", AbiFlags(abis[i])) /\ ~InStr("u", AbiFlags(abis[i]))
        /\ SeqLt(sys.version_info, <<3, 13>>) =>
              \A i \in 1..Len(abis) : ~InStr("t", AbiFlags(abis[i]))

\* a free-threaded debug build of CPython 3.14, whose pymalloc and unicode
\* settings no longer show
C24_Witness ==
    /\ CPythonAssembled
    /\ sys.version_info = <<3, 14>>
    /\ IsThreadedBuild
    /\ IsDebugBuild
    /\ PymallocOnOrUnknown
    /\ UnicodeIsUcs4
    /\ abis[1] = "cp314td"

\* the architecture the formats are chosen for: a 32-bit interpreter runs as
\* ppc on PowerPC and as i386 elsewhere
EffectiveMacArch ==
    IF ~host.is32 THEN host.mac_ver.cpu_arch
    ELSE IF host.mac_ver.cpu_arch \in {"ppc64", "ppc"} THEN "ppc"
    ELSE "i386"

\* the format list of each architecture, the architecture itself first
LegacyMacFormatList(arch) ==
    CASE arch = "x86_64" -> <<"x86_64", "intel", "fat64", "fat32", "universal2", "universal">>
      [] arch = "i386" -> <<"i386", "intel", "fat32", "fat", "universal">>
      [] arch = "ppc64" -> <<"ppc64", "fat64", "universal">>
      [] arch = "ppc" -> <<"ppc", "fat32", "fat", "universal">>
      [] arch = "arm64" -> <<"arm64", "universal2">>

\* the versions 10.<minor> an architecture has no format for
NoMacFormat(arch, minor) ==
    CASE arch \in {"x86_64", "i386"} -> minor < 4
      [] arch = "ppc64" -> minor < 4 \/ minor > 5
      [] arch = "ppc" -> minor > 6
      [] OTHER -> FALSE

\* the tags of the minors m down to 0 of major 10
ExpectedLegacyMacPlatforms(m, arch) ==
    Flatten([i \in 1..(m + 1) |->
                IF NoMacFormat(arch, m + 1 - i) THEN <<>>
                ELSE [j \in 1..Len(LegacyMacFormatList(arch)) |->
                         MacosxTag(10, m + 1 - i, LegacyMacFormatList(arch)[j])]])

\* C25: for a macOS version 10.m, once the platforms are enumerated, the
\* platform list is, for the minors m down to 0 at major 10, the format list of
\* the architecture in its fixed order, which is empty for x86_64 and i386
\* below 10.4, for ppc64 below 10.4 or above 10.5 and for ppc above 10.6;
\* universal2 is among the formats of arm64 and x86_64 only.
C25_LegacyMacPlatforms ==
    \A m \in 0..(MaxMacMinor + 1) :
        (host.OS = "darwin" /\ pc # "start"
         /\ host.mac_ver.version_str \in {"10." \o Str(m), "10." \o Str(m) \o ".7"}) =>
            /\ pc # "failed"
            /\ platforms = ExpectedLegacyMacPlatforms(m, EffectiveMacArch)
            /\ \A i \in 1..(Len(platforms) - 1) :
                  SeqLe(MacTagVersion(platforms[i + 1]), MacTagVersion(platforms[i]))
            /\ \A i \in 1..Len(platforms) :
                  EndsWith(platforms[i], "_universal2") =>
                      EffectiveMacArch \in {"arm64", "x86_64"}

\* Mac OS X 10.6 on ppc64 with a 64-bit interpreter: only 10.5 and 10.4 have
\* formats
C25_Witness ==
    /\ Resolved
    /\ host.OS = "darwin"
    /\ host.mac_ver.version_str = "10.6"
    /\ host.mac_ver.cpu_arch = "ppc64"
    /\ ~host.is32
    /\ platforms =
          <<"macosx_10_5_ppc64", "macosx_10_5_fat64", "macosx_10_5_universal",
            "macosx_10_4_ppc64", "macosx_10_4_fat64", "macosx_10_4_universal">>

\* C26: every non-CPython interpreter with a well-formed extension suffix,
\* whatever its implementation name, gets through the tag assembly, and the
\* tags start with every generic ABI token in order crossed with every
\* platform in order, under an identifier that is a non-empty short name
\* followed by the version.
C26_EveryGenericInterpreterResolves ==
    (GenericInterpreter /\ ~SuffixMalformed /\ AssemblyAttempted) =>
        /\ pc # "failed"
        /\ Len(tags) >= Len(abis) * Len(platforms)
        /\ \A a \in 1..Len(abis), p \in 1..Len(platforms) :
              LET tag == tags[(a - 1) * Len(platforms) + p]
              IN /\ tag[2] = abis[a]
                 /\ tag[3] = platforms[p]
                 /\ tag[1] = tags[1][1]
                 /\ EndsWith(tag[1], Str(sys.version_info[1]) \o Str(sys.version_info[2]))
                 /\ Len(tag[1]) > Len(Str(sys.version_info[1]) \o Str(sys.version_info[2]))

\* the ABI compatibility gate fails for the aliases and flags of the host
AbiGateFails ==
    LET aliases == ElementsOf(ExpectedAliases)
        record == linux_info.manylinux[1]
    IN \/ "armv7l" \in aliases /\ ~record.armhf
       \/ "i686" \in aliases /\ "armv7l" \notin aliases /\ ~record.i686
       \/ aliases \cap {"armv7l", "i686", "x86_64", "aarch64", "ppc64", "ppc64le",
                        "s390x", "loongarch64", "riscv64"} = {}

\* C27: with a manylinux record whose flags, or whose architecture, fail the
\* ABI compatibility gate, the enumeration completes without any manylinux
\* tag: the Linux platform list is exactly the bare linux_<arch> tags of the
\* aliases.
C27_GateFailureBareLinuxOnly ==
    (host.OS = "linux" /\ IsManylinuxHost /\ pc # "start" /\ AbiGateFails) =>
        /\ pc # "failed"
        /\ platforms = [i \in 1..Len(ExpectedAliases) |-> "linux_" \o ExpectedAliases[i]]
        /\ \A i \in 1..Len(platforms) : ~IsManylinux(platforms[i])

\* a 32-bit interpreter on x86_64 with glibc 2.17 and i686 not compatible
C27_Witness ==
    /\ Resolved
    /\ host.get_platform = "linux-x86_64"
    /\ host.is32
    /\ IsManylinuxHost
    /\ linux_info.manylinux[1].glibc = Some(<<2, 17>>)
    /\ ~linux_info.manylinux[1].i686
    /\ platforms = <<"linux_i686">>

IsMusllinux(tag) == StartsWith(tag, "musllinux_")

\* C28: a Linux platform list never holds both manylinux and musllinux tags:
\* with a non-empty manylinux record it holds no musllinux tag, whether or not
\* a musllinux record is there too, and it holds musllinux tags only when the
\* manylinux record is absent or empty.
C28_OneLibcKind ==
    (host.OS = "linux" /\ pc \notin {"start", "failed"}) =>
        LET all == ElementsOf(platforms)
        IN /\ ~((\E t \in all : IsManylinux(t)) /\ (\E t \in all : IsMusllinux(t)))
           /\ IsManylinuxHost => \A t \in all : ~IsMusllinux(t)
           /\ ~IsManylinuxHost =>
                 /\ linux_info.musllinux # None
                 /\ \A t \in all : ~IsManylinux(t)
                 /\ \E t \in all : IsMusllinux(t)

\* glibc 2.17 and musl 1.1 both reported on x86_64: manylinux tags only
C28_Witness ==
    /\ Resolved
    /\ host.get_platform = "linux-x86_64"
    /\ ~host.is32
    /\ IsManylinuxHost
    /\ linux_info.manylinux[1].glibc = Some(<<2, 17>>)
    /\ linux_info.musllinux = Some(<<1, 1>>)
    /\ platforms[1] = "manylinux_2_17_x86_64"
    /\ \A i \in 1..Len(platforms) : ~IsMusllinux(platforms[i])

\* the number of "-" characters of a string
RECURSIVE DashCount(_)
DashCount(s) ==
    IF s = "" THEN 0
    ELSE (IF Head(s) = "-" THEN 1 ELSE 0) + DashCount(Tail(s))

\* C29: supported_tags of a completed resolution has one string per triple of
\* the tag sequence, in the same order, rendered interpreter-abi-platform;
\* every string has exactly two "-" characters and splits at them into the
\* triple it was rendered from.
C29_RenderedTagsSplitBack ==
    Resolved =>
        /\ Len(supported_tags) = Len(tags)
        /\ \A i \in 1..Len(tags) :
              /\ supported_tags[i] = tags[i][1] \o "-" \o tags[i][2] \o "-" \o tags[i][3]
              /\ DashCount(supported_tags[i]) = 2
              /\ Split(supported_tags[i], "-", -1) = tags[i]

\* PyPy 3.9 on macOS 12, whose ABI pypy39-pp73 of the extension suffix is
\* rendered with an underscore
C29_Witness ==
    /\ Resolved
    /\ sys.implementation_name = "pypy"
    /\ config_vars.EXT_SUFFIX = Some(".pypy39-pp73-x86_64-linux-gnu.so")
    /\ tags[1] = <<"pp39", "pypy39_pp73", "macosx_12_0_arm64">>
    /\ supported_tags[1] = "pp39-pypy39_pp73-macosx_12_0_arm64"

\* _load_pexcz was entered: the operating system and the architecture were
\* identified and the import went on to load the library
LoadEntered == boot_pc \in {"loaded", "failed", "exited"} /\ CURRENT_ARCH # None

\* what the try block of _load_pexcz ends with, from what the import met:
\* None when the library is returned, else the set of its original errors
OriginalOutcomes ==
    IF ~boot_request.library_found
    THEN {Some("Pexcz is not supported: no pexcz library found.")}
    ELSE IF ~boot_request.write_ok THEN {Some("IOError")}
    ELSE IF ~boot_request.load_ok THEN {Some("Failed to load pexcz library"), Some("OSError")}
    ELSE {None}

\* C30: off Windows, every path out of _load_pexcz has attempted the removal
\* of the temporary directory exactly once, the function ends with its own
\* result or original error, and a removal that failed shows as a warning
\* only; on Windows nothing is removed and exactly one at-exit action is
\* registered, with the library handle, or with none when loading failed.
C30_CleanupOncePreservesOutcome ==
    LoadEntered =>
        IF CURRENT_OS = Some("windows")
        THEN /\ cleanup.rmtree_calls = 0
             /\ Len(cleanup.atexit) = 1
             /\ (cleanup.atexit[1].dll = None) <=> (None \notin OriginalOutcomes)
             /\ raised \in OriginalOutcomes
        ELSE /\ cleanup.rmtree_calls = 1
             /\ cleanup.atexit = <<>>
             /\ raised \in OriginalOutcomes
             /\ (cleanup.warnings # <<>>) <=> ~boot_request.rmtree_ok

====
